---- MODULE Spec2Model ----
(***************************************************************************)
(* A model of the Lonelog notation core: the line tokenizer                *)
(* (lonelog-tokenizer), the NotationParser with its single-entry cache,    *)
(* the LonelogAutoComplete suggestion engine, the ProgressTrackerView and  *)
(* the live editor highlighter.                                            *)
(*                                                                         *)
(* Text is a sequence of one-character strings.  Offsets are 0-based as in *)
(* the source; Slice(s, a, b) is s.slice(a, b).                            *)
(***************************************************************************)
EXTENDS Integers, Sequences, FiniteSets, TLC

VARIABLES
    lineText,   \* tokenizer: the line handed to tokenizeLine
    tokens,     \* tokenizer: the Token[] it returned
    tkPc,       \* tokenizer: "input" before the call, "done" after it
    content,    \* parser: the document handed to the pending or latest parse call
    cache,      \* NotationParser.cache: <<>> for null, else <<[content, result]>>
    heap,       \* the ParsedElements objects allocated so far; an object is its index
    ret,        \* the object the latest parse call returned (0 before any)
    hist,       \* the calls made so far: operation, input, passes run, object returned
    ranked,     \* what NotationParser.getSuggestions returned: <<>>, else <<[type, names]>>
    edText,     \* editor: the document, editor.getValue()
    cursor,     \* editor: the cursor, [line, ch]
    context,    \* EditorSuggest.context: <<>> for null, else <<[start, end, query]>>
    parsedElements, \* LonelogAutoComplete.parsedElements: an object, 0 for null
    lastContent,    \* LonelogAutoComplete.lastContent
    suggestions,    \* the TagSuggestion[] that getSuggestions returned
    insertion,  \* the text selectSuggestion inserted
    acPc,       \* auto-completion: idle, nofile, closed, triggered, suggested, applied,
                \* compared, reparsed
    file,       \* vault: the content of the active file
    panel,      \* progress view: the items whose buttons are in the container
    jobs,       \* progress view: the async calls in flight (updateProgress, refresh)
    written,    \* the last vault.modify of updateProgress: <<>>, else <<[item, delta,
                \* read, before, after]>>
    clicked,    \* the button clicks so far: [item, delta]
    visibleRanges,  \* live editor: view.visibleRanges, [from, to] offsets
    decorations     \* live editor: <<>>, else <<the set of marks buildDecorations made>>

tokVars == <<lineText, tokens, tkPc>>

parVars == <<content, cache, heap, ret, hist, ranked>>

acVars == <<edText, cursor, context, parsedElements, lastContent, suggestions,
            insertion, acPc>>

trackerVars == <<file, panel, jobs, written, clicked>>

editorVars == <<visibleRanges, decorations>>

pluginVars == <<trackerVars, editorVars>>

vars == <<lineText, tokens, tkPc, content, cache, heap, ret, hist, ranked, edText,
          cursor, context, parsedElements, lastContent, suggestions, insertion, acPc,
          file, panel, jobs, written, clicked, visibleRanges, decorations>>

NULL == "null"

(***************************************************************************)
(* String primitives                                                       *)
(***************************************************************************)

\* String.prototype.slice(a, b) for 0 <= a, b <= length
Slice(s, a, b) == IF a >= b THEN <<>> ELSE SubSeq(s, a + 1, b)

\* s[i] for a 0-based index, "" past the end (undefined in the source)
CharAt(s, i) == IF i >= 0 /\ i < Len(s) THEN s[i + 1] ELSE ""

\* whether the literal p occurs in s at 0-based offset i
StartsWithAt(s, p, i) ==
    /\ i >= 0
    /\ i + Len(p) <= Len(s)
    /\ \A k \in 1..Len(p) : s[i + k] = p[k]

\* String.prototype.includes
Includes(s, p) == \E i \in 0..Len(s) : StartsWithAt(s, p, i)

\* the white space of \s and of trim()
IsWS(c) == c \in {" ", "\t", "\n"}

\* the decimal digits of \d
IsDigit(c) == c \in {"0", "1", "2", "3", "4", "5", "6", "7", "8", "9"}

\* the first 0-based offset >= i holding character c, or -1
RECURSIVE IndexOfChar(_, _, _)
IndexOfChar(s, c, i) ==
    IF i >= Len(s) THEN -1
    ELSE IF s[i + 1] = c THEN i
    ELSE IndexOfChar(s, c, i + 1)

\* String.prototype.trimStart
RECURSIVE TrimStart(_)
TrimStart(s) ==
    IF s # <<>> /\ IsWS(Head(s)) THEN TrimStart(Tail(s)) ELSE s

\* String.prototype.trimEnd
RECURSIVE TrimEnd(_)
TrimEnd(s) ==
    IF s # <<>> /\ IsWS(s[Len(s)]) THEN TrimEnd(SubSeq(s, 1, Len(s) - 1)) ELSE s

\* String.prototype.trim
Trim(s) == TrimEnd(TrimStart(s))

\* the concatenation of a sequence of texts
RECURSIVE Concat(_)
Concat(ss) == IF ss = <<>> THEN <<>> ELSE Head(ss) \o Concat(Tail(ss))

(***************************************************************************)
(* Tokenizer                                                               *)
(***************************************************************************)

\* line-start patterns in which a lone "=" already makes a consequence
LineStartTypeLooseArrow(trimmed) ==
    IF StartsWithAt(trimmed, <<"@">>, 0) THEN "action"
    ELSE IF StartsWithAt(trimmed, <<"?">>, 0) THEN "question"
    ELSE IF StartsWithAt(trimmed, <<"d", ":">>, 0) THEN "dice"
    ELSE IF StartsWithAt(trimmed, <<"=">>, 0) THEN "consequence"
    ELSE NULL

\* LINE_START_PATTERNS, tested in order against the trimmed line
LineStartType(trimmed) ==
    IF StartsWithAt(trimmed, <<"@">>, 0) THEN "action"
    ELSE IF StartsWithAt(trimmed, <<"?">>, 0) THEN "question"
    ELSE IF StartsWithAt(trimmed, <<"d", ":">>, 0) THEN "dice"
    ELSE IF StartsWithAt(trimmed, <<"=", ">">>, 0) THEN "consequence"
    ELSE NULL

\* the loop over RESULT_ARROW_RE from offset i: every "->" not preceded by "="
RECURSIVE ResultArrows(_, _)
ResultArrows(s, i) ==
    IF i + 2 > Len(s) THEN <<>>
    ELSE IF StartsWithAt(s, <<"-", ">">>, i)
    THEN IF i > 0 /\ CharAt(s, i - 1) = "="
         THEN ResultArrows(s, i + 2)
         ELSE <<[start |-> i, end |-> i + 2, type |-> "result"]>>
                  \o ResultArrows(s, i + 2)
    ELSE ResultArrows(s, i + 1)

\* the type names BRACKET_TAG_RE accepts between "[" (and an optional "#") and ":"
TagTypeNames ==
    { <<"N">>, <<"L">>, <<"P", "C">>, <<"T", "h", "r", "e", "a", "d">>, <<"E">>,
      <<"T", "r", "a", "c", "k">>, <<"T", "i", "m", "e", "r">> }

\* the end offset of a BRACKET_TAG_RE match starting at i, or -1
BracketTagEnd(s, i) ==
    IF CharAt(s, i) # "[" THEN -1
    ELSE LET j == IF CharAt(s, i + 1) = "#" THEN i + 2 ELSE i + 1
             heads == { n \in TagTypeNames : StartsWithAt(s, n \o <<":">>, j) }
         IN  IF heads = {} THEN -1
             ELSE LET n == CHOOSE h \in heads : TRUE
                      close == IndexOfChar(s, "]", j + Len(n) + 1)
                  IN  IF close < 0 THEN -1 ELSE close + 1

\* the loop over BRACKET_TAG_RE from offset i: leftmost matches, one after another
RECURSIVE BracketTags(_, _)
BracketTags(s, i) ==
    IF i >= Len(s) THEN <<>>
    ELSE LET e == BracketTagEnd(s, i)
         IN  IF e < 0 THEN BracketTags(s, i + 1)
             ELSE <<[start |-> i, end |-> e, type |-> "tag"]>> \o BracketTags(s, e)

\* insertion of x after the elements whose start is not greater (a stable sort step)
RECURSIVE InsertByStart(_, _)
InsertByStart(sorted, x) ==
    IF sorted = <<>> THEN <<x>>
    ELSE IF Head(sorted).start <= x.start
    THEN <<Head(sorted)>> \o InsertByStart(Tail(sorted), x)
    ELSE <<x>> \o sorted

\* inlineTokens.sort((a, b) => a.start - b.start)
RECURSIVE SortByStart(_)
SortByStart(xs) ==
    IF xs = <<>> THEN <<>>
    ELSE InsertByStart(SortByStart(SubSeq(xs, 1, Len(xs) - 1)), xs[Len(xs)])

\* the inline tokens of a line, as collected and sorted
InlineTokens(s, lineType) ==
    SortByStart((IF lineType # "consequence" THEN ResultArrows(s, 0) ELSE <<>>)
                \o BracketTags(s, 0))

MkToken(type, s, a, b) ==
    [type |-> type, start |-> a, end |-> b, text |-> Slice(s, a, b)]

\* the stitching loop: the gap before each inline token, the token, then the rest
RECURSIVE Stitch(_, _, _, _)
Stitch(s, fill, inl, pos) ==
    IF inl = <<>>
    THEN IF pos < Len(s) THEN <<MkToken(fill, s, pos, Len(s))>> ELSE <<>>
    ELSE LET t == Head(inl)
         IN  (IF t.start > pos THEN <<MkToken(fill, s, pos, t.start)>> ELSE <<>>)
             \o <<MkToken(t.type, s, t.start, t.end)>>
             \o Stitch(s, fill, Tail(inl), t.end)

\* a tokenizer that gives the inline tokens the colour of the line
tokenizeLineRecoloured(s) ==
    LET lineType == LineStartType(TrimStart(s))
        fill == IF lineType # NULL THEN lineType ELSE "text"
        inl == InlineTokens(s, lineType)
    IN  Stitch(s, fill, [k \in 1..Len(inl) |-> [inl[k] EXCEPT !.type = fill]], 0)

tokenizeLine(s) ==
    LET lineType == LineStartType(TrimStart(s))
        fill == IF lineType # NULL THEN lineType ELSE "text"
    IN  Stitch(s, fill, InlineTokens(s, lineType), 0)

(***************************************************************************)
(* NotationParser: the scanning passes                                     *)
(***************************************************************************)

\* getLineNumber: the number of line breaks before offset index
RECURSIVE getLineNumber(_, _)
getLineNumber(s, index) ==
    IF index <= 0 THEN 0
    ELSE getLineNumber(s, index - 1) + (IF s[index] = "\n" THEN 1 ELSE 0)

\* the first offset >= i holding "]" or "|", or the length of s
RECURSIVE NameEnd(_, _)
NameEnd(s, i) ==
    IF i >= Len(s) THEN Len(s)
    ELSE IF s[i + 1] \in {"]", "|"} THEN i
    ELSE NameEnd(s, i + 1)

NoMatch == [ok |-> FALSE]

\* one attempt of /\[<prefix>([^\]|]+)(\|([^\]]*))?\]/ at offset i: the name runs
\* to the first "]" or "|"; a "|" opens the tail, which runs to the next "]"
EntityMatchAt(s, prefix, i) ==
    IF ~StartsWithAt(s, prefix, i) THEN NoMatch
    ELSE LET n0 == i + Len(prefix)
             n1 == NameEnd(s, n0)
         IN  IF n1 = n0 \/ n1 >= Len(s) THEN NoMatch
             ELSE IF s[n1 + 1] = "]"
             THEN [ok |-> TRUE, index |-> i, end |-> n1 + 1,
                   g1 |-> Slice(s, n0, n1), hasG3 |-> FALSE, g3 |-> <<>>]
             ELSE LET close == IndexOfChar(s, "]", n1 + 1)
                  IN  IF close < 0 THEN NoMatch
                      ELSE [ok |-> TRUE, index |-> i, end |-> close + 1,
                            g1 |-> Slice(s, n0, n1), hasG3 |-> TRUE,
                            g3 |-> Slice(s, n1 + 1, close)]

\* the successive results of regex.exec(content) from lastIndex i
RECURSIVE EntityMatches(_, _, _)
EntityMatches(s, prefix, i) ==
    IF i >= Len(s) THEN <<>>
    ELSE LET m == EntityMatchAt(s, prefix, i)
         IN  IF m.ok THEN <<m>> \o EntityMatches(s, prefix, m.end)
             ELSE EntityMatches(s, prefix, i + 1)

\* String.prototype.split("|")
RECURSIVE SplitPipe(_)
SplitPipe(s) ==
    LET k == IndexOfChar(s, "|", 0)
    IN  IF k < 0 THEN <<s>>
        ELSE <<Slice(s, 0, k)>> \o SplitPipe(Slice(s, k + 1, Len(s)))

\* .filter((t) => t) on a list of texts
RECURSIVE FilterNonEmpty(_)
FilterNonEmpty(ts) ==
    IF ts = <<>> THEN <<>>
    ELSE (IF Head(ts) # <<>> THEN <<Head(ts)>> ELSE <<>>) \o FilterNonEmpty(Tail(ts))

\* tagsStr.split("|").map((t) => t.trim()).filter((t) => t)
SplitTags(tagsStr) ==
    LET parts == SplitPipe(tagsStr)
    IN  FilterNonEmpty([k \in 1..Len(parts) |-> Trim(parts[k])])

\* Array.prototype.includes
InSeq(xs, x) == \E k \in 1..Len(xs) : xs[k] = x

\* tags.forEach((tag) => { if (!existing.tags.includes(tag)) existing.tags.push(tag) })
RECURSIVE MergeTags(_, _)
MergeTags(existing, tags) ==
    IF tags = <<>> THEN existing
    ELSE MergeTags(IF InSeq(existing, Head(tags)) THEN existing
                   ELSE Append(existing, Head(tags)),
                   Tail(tags))

\* A Map is a sequence of records in insertion order, one per key (the name field).
MapHas(map, name) == \E k \in 1..Len(map) : map[k].name = name

MapIndex(map, name) == CHOOSE k \in 1..Len(map) : map[k].name = name

MapGet(map, name) == map[MapIndex(map, name)]

\* the entry created for the first mention of a name
NewEntity(name, tags, lineNum) ==
    [name |-> name, tags |-> tags, mentions |-> <<lineNum>>,
     firstMention |-> lineNum, lastMention |-> lineNum]

\* UpdateEntity with the assignment to lastMention left out
UpdateEntityStaleLast(existing, tags, lineNum) ==
    [existing EXCEPT !.mentions = Append(@, lineNum),
                     !.tags = MergeTags(@, tags)]

\* the update of an existing entry by a later mention
UpdateEntity(existing, tags, lineNum) ==
    [existing EXCEPT !.mentions = Append(@, lineNum),
                     !.lastMention = lineNum,
                     !.tags = MergeTags(@, tags)]

\* EntityStep keyed by the name as matched, without trim()
EntityStepUntrimmed(map, s, m) ==
    LET name == m.g1
        tags == SplitTags(m.g3)
        lineNum == getLineNumber(s, m.index)
    IN  IF MapHas(map, name)
        THEN [map EXCEPT ![MapIndex(map, name)] = UpdateEntity(@, tags, lineNum)]
        ELSE Append(map, NewEntity(name, tags, lineNum))

\* one turn of the while loop of parseNPCs / parseLocations / parsePCs
EntityStep(map, s, m) ==
    LET name == Trim(m.g1)
        tags == SplitTags(m.g3)
        lineNum == getLineNumber(s, m.index)
    IN  IF MapHas(map, name)
        THEN [map EXCEPT ![MapIndex(map, name)] = UpdateEntity(@, tags, lineNum)]
        ELSE Append(map, NewEntity(name, tags, lineNum))

RECURSIVE EntityFold(_, _, _)
EntityFold(map, s, ms) ==
    IF ms = <<>> THEN map
    ELSE EntityFold(EntityStep(map, s, Head(ms)), s, Tail(ms))

NpcPrefix == <<"[", "N", ":">>
LocationPrefix == <<"[", "L", ":">>
ThreadPrefix == <<"[", "T", "h", "r", "e", "a", "d", ":">>
PcPrefix == <<"[", "P", "C", ":">>

parseNPCs(s) == EntityFold(<<>>, s, EntityMatches(s, NpcPrefix, 0))

parseLocations(s) == EntityFold(<<>>, s, EntityMatches(s, LocationPrefix, 0))

parsePCs(s) == EntityFold(<<>>, s, EntityMatches(s, PcPrefix, 0))

OpenState == <<"O", "p", "e", "n">>

\* match[3]?.trim() || "Open"
ThreadState(m) ==
    IF m.hasG3 /\ Trim(m.g3) # <<>> THEN Trim(m.g3) ELSE OpenState

NewThread(name, state, lineNum) ==
    [name |-> name, state |-> state, mentions |-> <<lineNum>>,
     firstMention |-> lineNum, lastMention |-> lineNum]

\* UpdateThread with the assignment to state left out (the first state is kept)
UpdateThreadKeepState(existing, state, lineNum) ==
    [existing EXCEPT !.mentions = Append(@, lineNum),
                     !.lastMention = lineNum]

\* the update of an existing thread by a later mention
UpdateThread(existing, state, lineNum) ==
    [existing EXCEPT !.mentions = Append(@, lineNum),
                     !.lastMention = lineNum,
                     !.state = state]

\* one turn of the while loop of parseThreads
ThreadStep(map, s, m) ==
    LET name == Trim(m.g1)
        state == ThreadState(m)
        lineNum == getLineNumber(s, m.index)
    IN  IF MapHas(map, name)
        THEN [map EXCEPT ![MapIndex(map, name)] = UpdateThread(@, state, lineNum)]
        ELSE Append(map, NewThread(name, state, lineNum))

RECURSIVE ThreadFold(_, _, _)
ThreadFold(map, s, ms) ==
    IF ms = <<>> THEN map
    ELSE ThreadFold(ThreadStep(map, s, Head(ms)), s, Tail(ms))

parseThreads(s) == ThreadFold(<<>>, s, EntityMatches(s, ThreadPrefix, 0))

\* the start of the run of digits that ends just before offset e (e when there is none)
RECURSIVE DigitRunStart(_, _)
DigitRunStart(s, e) ==
    IF e > 0 /\ IsDigit(s[e]) THEN DigitRunStart(s, e - 1) ELSE e

DigitValue(c) ==
    CASE c = "0" -> 0 [] c = "1" -> 1 [] c = "2" -> 2 [] c = "3" -> 3 [] c = "4" -> 4
      [] c = "5" -> 5 [] c = "6" -> 6 [] c = "7" -> 7 [] c = "8" -> 8 [] c = "9" -> 9

\* parseInt of a run of digits
RECURSIVE parseInt(_)
parseInt(ds) ==
    IF ds = <<>> THEN 0
    ELSE parseInt(SubSeq(ds, 1, Len(ds) - 1)) * 10 + DigitValue(ds[Len(ds)])

\* one attempt of /\[<prefix>([^\]]+)\s+(\d+)\/(\d+)\]/ at offset i.  Nothing in
\* the pattern crosses a "]", so the match closes at the first one; the two runs
\* of digits and the "/" are read back from it, one white space character before
\* them ends the (greedy, non-empty) name.
RatioMatchAt(s, prefix, i) ==
    IF ~StartsWithAt(s, prefix, i) THEN NoMatch
    ELSE LET b0 == i + Len(prefix)
             close == IndexOfChar(s, "]", b0)
             d2 == DigitRunStart(s, close)
             slash == d2 - 1
             d1 == DigitRunStart(s, slash)
             ws == d1 - 1
         IN  IF close < 0 \/ d2 = close \/ slash < b0 THEN NoMatch
             ELSE IF s[slash + 1] # "/" \/ d1 = slash \/ ws < b0 + 1 THEN NoMatch
             ELSE IF ~IsWS(s[ws + 1]) THEN NoMatch
             ELSE [ok |-> TRUE, index |-> i, end |-> close + 1,
                   g1 |-> Slice(s, b0, ws), g2 |-> Slice(s, d1, slash),
                   g3 |-> Slice(s, d2, close)]

\* one attempt of /\[Timer:([^\]]+)\s+(\d+)\]/ at offset i
CountMatchAt(s, prefix, i) ==
    IF ~StartsWithAt(s, prefix, i) THEN NoMatch
    ELSE LET b0 == i + Len(prefix)
             close == IndexOfChar(s, "]", b0)
             d1 == DigitRunStart(s, close)
             ws == d1 - 1
         IN  IF close < 0 \/ d1 = close \/ ws < b0 + 1 THEN NoMatch
             ELSE IF ~IsWS(s[ws + 1]) THEN NoMatch
             ELSE [ok |-> TRUE, index |-> i, end |-> close + 1,
                   g1 |-> Slice(s, b0, ws), g2 |-> Slice(s, d1, close)]

ClockPrefix == <<"[", "E", ":">>
TrackPrefix == <<"[", "T", "r", "a", "c", "k", ":">>
TimerPrefix == <<"[", "T", "i", "m", "e", "r", ":">>

\* a list of progress records with every record but the last of each name dropped
RECURSIVE LastOfEachName(_)
LastOfEachName(rs) ==
    IF rs = <<>> THEN <<>>
    ELSE IF \E k \in 2..Len(rs) : rs[k].name = Head(rs).name
    THEN LastOfEachName(Tail(rs))
    ELSE <<Head(rs)>> \o LastOfEachName(Tail(rs))

\* the while loop over clockRegex / trackRegex from lastIndex i, pushing one record a match
RECURSIVE RatioScan(_, _, _, _)
RatioScan(s, prefix, type, i) ==
    IF i >= Len(s) THEN <<>>
    ELSE LET m == RatioMatchAt(s, prefix, i)
         IN  IF m.ok
             THEN <<[type |-> type, name |-> Trim(m.g1), current |-> parseInt(m.g2),
                     hasMax |-> TRUE, max |-> parseInt(m.g3),
                     line |-> getLineNumber(s, m.index)]>>
                  \o RatioScan(s, prefix, type, m.end)
             ELSE RatioScan(s, prefix, type, i + 1)

\* the while loop over timerRegex from lastIndex i; a timer record has no max
RECURSIVE CountScan(_, _, _, _)
CountScan(s, prefix, type, i) ==
    IF i >= Len(s) THEN <<>>
    ELSE LET m == CountMatchAt(s, prefix, i)
         IN  IF m.ok
             THEN <<[type |-> type, name |-> Trim(m.g1), current |-> parseInt(m.g2),
                     hasMax |-> FALSE, max |-> 0,
                     line |-> getLineNumber(s, m.index)]>>
                  \o CountScan(s, prefix, type, m.end)
             ELSE CountScan(s, prefix, type, i + 1)

\* parseProgress aggregating by name, the way the entity passes do
parseProgressAggregating(s) ==
    LastOfEachName(RatioScan(s, ClockPrefix, "clock", 0))
        \o LastOfEachName(RatioScan(s, TrackPrefix, "track", 0))
        \o LastOfEachName(CountScan(s, TimerPrefix, "timer", 0))

parseProgress(s) ==
    RatioScan(s, ClockPrefix, "clock", 0)
        \o RatioScan(s, TrackPrefix, "track", 0)
        \o CountScan(s, TimerPrefix, "timer", 0)

\* the five scanning passes of parse and the object they are gathered in
ScanDocument(s) ==
    [npcs |-> parseNPCs(s), locations |-> parseLocations(s),
     threads |-> parseThreads(s), pcs |-> parsePCs(s),
     progress |-> parseProgress(s)]

\* the number of scanning passes of one full parse
ScanPasses == 5

(***************************************************************************)
(* Host text services: the editor and the string methods of the runtime     *)
(***************************************************************************)

LowerLetters ==
    <<"a", "b", "c", "d", "e", "f", "g", "h", "i", "j", "k", "l", "m",
      "n", "o", "p", "q", "r", "s", "t", "u", "v", "w", "x", "y", "z">>

UpperLetters ==
    <<"A", "B", "C", "D", "E", "F", "G", "H", "I", "J", "K", "L", "M",
      "N", "O", "P", "Q", "R", "S", "T", "U", "V", "W", "X", "Y", "Z">>

\* the position of c in the sequence xs, 0 when it is not in it
PositionIn(xs, c) ==
    IF \E k \in 1..Len(xs) : xs[k] = c THEN CHOOSE k \in 1..Len(xs) : xs[k] = c ELSE 0

IsUpper(c) == PositionIn(UpperLetters, c) > 0

\* String.prototype.toLowerCase
ToLower(s) ==
    [k \in 1..Len(s) |->
        IF IsUpper(s[k]) THEN LowerLetters[PositionIn(UpperLetters, s[k])] ELSE s[k]]

\* the characters of \w
IsWordChar(c) ==
    \/ PositionIn(LowerLetters, c) > 0
    \/ IsUpper(c)
    \/ IsDigit(c)
    \/ c = "_"

\* the order of the collation the runtime compares with (CLDR root): white
\* space, punctuation, symbols, digits, then the letters without regard to case
CollationOrder ==
    <<"\t", "\n", " ", "_", "-", ":", "?", "[", "]", "@", "/", "#", "=", ">", "|",
      "0", "1", "2", "3", "4", "5", "6", "7", "8", "9">> \o LowerLetters

PrimaryKey(s) == [k \in 1..Len(s) |-> PositionIn(CollationOrder, ToLower(s)[k])]

CaseKey(s) == [k \in 1..Len(s) |-> IF IsUpper(s[k]) THEN 1 ELSE 0]

\* the comparison of two sequences of numbers, element by element: -1, 0 or 1
RECURSIVE LexCompare(_, _)
LexCompare(a, b) ==
    IF a = <<>> THEN (IF b = <<>> THEN 0 ELSE -1)
    ELSE IF b = <<>> THEN 1
    ELSE IF Head(a) < Head(b) THEN -1
    ELSE IF Head(a) > Head(b) THEN 1
    ELSE LexCompare(Tail(a), Tail(b))

\* String.prototype.localeCompare: the letters first, lower case before upper
\* case only between texts with the same letters
localeCompare(a, b) ==
    LET primary == LexCompare(PrimaryKey(a), PrimaryKey(b))
    IN  IF primary # 0 THEN primary ELSE LexCompare(CaseKey(a), CaseKey(b))

\* Array.prototype.join
RECURSIVE Join(_, _)
Join(ts, sep) ==
    IF ts = <<>> THEN <<>>
    ELSE IF Len(ts) = 1 THEN ts[1]
    ELSE ts[1] \o sep \o Join(Tail(ts), sep)

\* String.prototype.split("\n")
RECURSIVE SplitLines(_)
SplitLines(s) ==
    LET k == IndexOfChar(s, "\n", 0)
    IN  IF k < 0 THEN <<s>>
        ELSE <<Slice(s, 0, k)>> \o SplitLines(Slice(s, k + 1, Len(s)))

\* Editor.getLine(n), n counted from 0
getLine(text, n) == SplitLines(text)[n + 1]

\* the offset in the text of position pos
OffsetOf(text, pos) ==
    LET ls == SplitLines(text)
    IN  Len(Concat([k \in 1..pos.line |-> ls[k] \o <<"\n">>])) + pos.ch

\* Editor.replaceRange(replacement, from, to)
replaceRange(text, replacement, from, to) ==
    Slice(text, 0, OffsetOf(text, from)) \o replacement
        \o Slice(text, OffsetOf(text, to), Len(text))

\* the positions a cursor can have in the text
Positions(text) ==
    LET ls == SplitLines(text)
    IN  UNION { { [line |-> n - 1, ch |-> c] : c \in 0..Len(ls[n]) } : n \in 1..Len(ls) }

(***************************************************************************)
(* NotationParser.getAllNames and NotationParser.getSuggestions             *)
(***************************************************************************)

\* Array.from(map.keys()) for the map of the type, [] for any other type
getAllNames(doc, type) ==
    LET map == IF type = "npc" THEN doc.npcs
               ELSE IF type = "location" THEN doc.locations
               ELSE IF type = "thread" THEN doc.threads
               ELSE IF type = "pc" THEN doc.pcs
               ELSE <<>>
    IN  [k \in 1..Len(map) |-> map[k].name]

\* a comparator that puts the names starting with the query before the exact one
CompareNamesStartsFirst(a, b, lowerQuery) ==
    LET aStarts == StartsWithAt(ToLower(a), lowerQuery, 0) /\ ToLower(a) # lowerQuery
        bStarts == StartsWithAt(ToLower(b), lowerQuery, 0) /\ ToLower(b) # lowerQuery
    IN  IF aStarts /\ ~bStarts THEN -1
        ELSE IF ~aStarts /\ bStarts THEN 1
        ELSE localeCompare(a, b)

\* the comparator of getSuggestions: negative, zero or positive
CompareNames(a, b, lowerQuery) ==
    LET aExact == ToLower(a) = lowerQuery
        bExact == ToLower(b) = lowerQuery
        aStarts == StartsWithAt(ToLower(a), lowerQuery, 0)
        bStarts == StartsWithAt(ToLower(b), lowerQuery, 0)
    IN  IF aExact /\ ~bExact THEN -1
        ELSE IF ~aExact /\ bExact THEN 1
        ELSE IF aStarts /\ ~bStarts THEN -1
        ELSE IF ~aStarts /\ bStarts THEN 1
        ELSE localeCompare(a, b)

\* one step of the stable sort of names
RECURSIVE InsertName(_, _, _)
InsertName(sorted, x, lowerQuery) ==
    IF sorted = <<>> THEN <<x>>
    ELSE IF CompareNames(Head(sorted), x, lowerQuery) <= 0
    THEN <<Head(sorted)>> \o InsertName(Tail(sorted), x, lowerQuery)
    ELSE <<x>> \o sorted

\* names.sort(comparator)
RECURSIVE SortNames(_, _)
SortNames(xs, lowerQuery) ==
    IF xs = <<>> THEN <<>>
    ELSE InsertName(SortNames(SubSeq(xs, 1, Len(xs) - 1), lowerQuery),
                    xs[Len(xs)], lowerQuery)

\* NotationParser.getSuggestions(parsedElements, type, query)
getSuggestions(doc, type, query) ==
    LET lowerQuery == ToLower(query)
        kept == SelectSeq(getAllNames(doc, type),
                          LAMBDA name : Includes(ToLower(name), lowerQuery))
    IN  SortNames(kept, lowerQuery)

(***************************************************************************)
(* LonelogAutoComplete                                                      *)
(***************************************************************************)

ReferencePrefix == <<"[", "#", "N", ":">>

\* the start of the run of \w characters that ends just before offset e
RECURSIVE WordRunStart(_, _)
WordRunStart(s, e) ==
    IF e > 0 /\ IsWordChar(s[e]) THEN WordRunStart(s, e - 1) ELSE e

\* beforeCursor.match(/<prefix>(\w*)$/): the prefix, then \w characters to the end
TailMatch(before, prefix) ==
    LET w == WordRunStart(before, Len(before))
    IN  IF StartsWithAt(before, prefix, w - Len(prefix))
        THEN [ok |-> TRUE, query |-> Slice(before, w, Len(before))]
        ELSE NoMatch

\* a TriggerInfo whose range is empty: it starts at the cursor too
TriggerInfoAtCursor(cursorPos, query) ==
    <<[start |-> cursorPos, end |-> cursorPos, query |-> query]>>

\* the EditorSuggestTriggerInfo built from a match
TriggerInfo(cursorPos, query) ==
    <<[start |-> [line |-> cursorPos.line, ch |-> cursorPos.ch - Len(query)],
       end |-> cursorPos,
       query |-> query]>>

\* onTrigger(cursor, editor, file): <<>> for null
onTrigger(cursorPos, text, hasFile) ==
    IF ~hasFile THEN <<>>
    ELSE LET before == Slice(getLine(text, cursorPos.line), 0, cursorPos.ch)
             npcDef == TailMatch(before, NpcPrefix)
             npcRef == TailMatch(before, ReferencePrefix)
             location == TailMatch(before, LocationPrefix)
             thread == TailMatch(before, ThreadPrefix)
             pc == TailMatch(before, PcPrefix)
         IN  IF npcDef.ok THEN TriggerInfo(cursorPos, npcDef.query)
             ELSE IF npcRef.ok THEN TriggerInfo(cursorPos, npcRef.query)
             ELSE IF location.ok THEN TriggerInfo(cursorPos, location.query)
             ELSE IF thread.ok THEN TriggerInfo(cursorPos, thread.query)
             ELSE IF pc.ok THEN TriggerInfo(cursorPos, pc.query)
             ELSE <<>>

\* query === "" || name.toLowerCase().includes(query)
MatchesQuery(name, query) == query = <<>> \/ Includes(ToLower(name), query)

\* ` (${tags.join(", ")})`, empty without tags
TagsDisplay(tags) ==
    IF Len(tags) > 0 THEN <<" ", "(">> \o Join(tags, <<",", " ">>) \o <<")">> ELSE <<>>

\* the TagSuggestion pushed for an NPC, Location or PC entry
EntitySuggestion(e, type) ==
    [name |-> e.name, type |-> type, hasTags |-> TRUE, tags |-> e.tags,
     displayText |-> e.name \o TagsDisplay(e.tags)]

\* the TagSuggestion pushed for a thread entry: no tags field
ThreadSuggestion(t) ==
    [name |-> t.name, type |-> "thread", hasTags |-> FALSE, tags |-> <<>>,
     displayText |-> t.name \o <<" ", "[">> \o t.state \o <<"]">>]

\* a comparator without the exact-match and starts-with tiers
CompareByNameOnly(a, b, query) == localeCompare(a.name, b.name)

\* the comparator of sortSuggestions: negative, zero or positive
CompareSuggestions(a, b, query) ==
    LET lowerQuery == ToLower(query)
        aName == ToLower(a.name)
        bName == ToLower(b.name)
        aStarts == StartsWithAt(aName, lowerQuery, 0)
        bStarts == StartsWithAt(bName, lowerQuery, 0)
    IN  IF aName = lowerQuery /\ bName # lowerQuery THEN -1
        ELSE IF aName # lowerQuery /\ bName = lowerQuery THEN 1
        ELSE IF aStarts /\ ~bStarts THEN -1
        ELSE IF ~aStarts /\ bStarts THEN 1
        ELSE localeCompare(a.name, b.name)

\* one step of the stable sort: x goes after the elements that do not follow it
RECURSIVE InsertSuggestion(_, _, _)
InsertSuggestion(sorted, x, query) ==
    IF sorted = <<>> THEN <<x>>
    ELSE IF CompareSuggestions(Head(sorted), x, query) <= 0
    THEN <<Head(sorted)>> \o InsertSuggestion(Tail(sorted), x, query)
    ELSE <<x>> \o sorted

\* suggestions.sort(comparator)
RECURSIVE sortSuggestions(_, _)
sortSuggestions(xs, query) ==
    IF xs = <<>> THEN <<>>
    ELSE InsertSuggestion(sortSuggestions(SubSeq(xs, 1, Len(xs) - 1), query),
                          xs[Len(xs)], query)

\* the entries of a map whose name matches the query, in insertion order
Matching(map, query) == SelectSeq(map, LAMBDA e : MatchesQuery(e.name, query))

getNPCSuggestions(doc, query) ==
    LET es == Matching(doc.npcs, query)
    IN  sortSuggestions([k \in 1..Len(es) |-> EntitySuggestion(es[k], "npc")], query)

getLocationSuggestions(doc, query) ==
    LET es == Matching(doc.locations, query)
    IN  sortSuggestions([k \in 1..Len(es) |-> EntitySuggestion(es[k], "location")], query)

getThreadSuggestions(doc, query) ==
    LET es == Matching(doc.threads, query)
    IN  sortSuggestions([k \in 1..Len(es) |-> ThreadSuggestion(es[k])], query)

getPCSuggestions(doc, query) ==
    LET es == Matching(doc.pcs, query)
    IN  sortSuggestions([k \in 1..Len(es) |-> EntitySuggestion(es[k], "pc")], query)

\* the second half of getSuggestions: the kind is read off the text before the cursor
SuggestionsFor(doc, beforeCursor, query) ==
    IF Includes(beforeCursor, NpcPrefix) \/ Includes(beforeCursor, ReferencePrefix)
    THEN getNPCSuggestions(doc, query)
    ELSE IF Includes(beforeCursor, LocationPrefix) THEN getLocationSuggestions(doc, query)
    ELSE IF Includes(beforeCursor, ThreadPrefix) THEN getThreadSuggestions(doc, query)
    ELSE IF Includes(beforeCursor, PcPrefix) THEN getPCSuggestions(doc, query)
    ELSE <<>>

\* const isReference = beforeCursor.includes("[#N:")
IsReference(beforeCursor) == Includes(beforeCursor, ReferencePrefix)

\* a composition that gives a thread the state its suggestion displays
InsertionKeepsState(suggestion, isReference) ==
    IF isReference THEN suggestion.name \o <<"]">>
    ELSE IF suggestion.type \in {"npc", "location", "pc"}
    THEN IF suggestion.hasTags /\ Len(suggestion.tags) > 0
         THEN suggestion.name \o <<"|">> \o Join(suggestion.tags, <<"|">>) \o <<"]">>
         ELSE suggestion.name \o <<"|", "]">>
    ELSE suggestion.name \o <<"|">>
             \o Slice(suggestion.displayText, Len(suggestion.name) + 2,
                      Len(suggestion.displayText))

\* the text selectSuggestion composes for a suggestion
Insertion(suggestion, isReference) ==
    IF isReference THEN suggestion.name \o <<"]">>
    ELSE IF suggestion.type \in {"npc", "location", "pc"}
    THEN IF suggestion.hasTags /\ Len(suggestion.tags) > 0
         THEN suggestion.name \o <<"|">> \o Join(suggestion.tags, <<"|">>) \o <<"]">>
         ELSE suggestion.name \o <<"|", "]">>
    ELSE suggestion.name \o <<"|">> \o OpenState \o <<"]">>

(***************************************************************************)
(* Input lines: concatenations of at most MaxLinePieces pieces              *)
(***************************************************************************)

MaxLinePieces == 3

LinePieces ==
    { <<"[", "N", ":">>, <<"[", "#", "L", ":">>, <<"[">>, <<"]">>, <<"|">>,
      <<":">>, <<"-">>, <<">">>, <<"-", ">">>, <<"=">>, <<"=", ">">>, <<"a">>,
      <<" ">>, <<"@">>, <<"d", ":">>, <<"?">> }

\* the sequences of at most n pieces
PieceSeqs(pieces, n) == UNION { [1..k -> pieces] : k \in 0..n }

\* the texts made of at most n pieces
Texts(pieces, n) == { Concat(ps) : ps \in PieceSeqs(pieces, n) }

(***************************************************************************)
(* Idle values: what a component's state is while another one is exercised  *)
(***************************************************************************)

TokIdle ==
    /\ lineText = <<>>
    /\ tokens = <<>>
    /\ tkPc = "idle"

\* LonelogAutoComplete as constructed, over an empty editor
AcIdle ==
    /\ edText = <<>>
    /\ cursor = [line |-> 0, ch |-> 0]
    /\ context = <<>>
    /\ parsedElements = 0
    /\ lastContent = <<>>
    /\ suggestions = <<>>
    /\ insertion = <<>>
    /\ acPc = "off"

\* the parser before any call: private static cache = null
ParserInit ==
    /\ cache = <<>>
    /\ heap = <<>>
    /\ ret = 0
    /\ hist = <<>>
    /\ ranked = <<>>

\* no progress view is open and no editor extension is running
TrackerIdle ==
    /\ file = <<>>
    /\ panel = <<>>
    /\ jobs = <<>>
    /\ written = <<>>
    /\ clicked = <<>>

EditorIdle ==
    /\ visibleRanges = <<>>
    /\ decorations = <<>>

PluginIdle == TrackerIdle /\ EditorIdle

(***************************************************************************)
(* The tokenizer as a state machine: a line comes in, tokenizeLine runs     *)
(***************************************************************************)

TokInit ==
    /\ lineText \in Texts(LinePieces, MaxLinePieces)
    /\ tokens = <<>>
    /\ tkPc = "input"
    /\ content = <<>>
    /\ ParserInit
    /\ PluginIdle
    /\ AcIdle

TokenizeLine ==
    /\ tkPc = "input"
    /\ tokens' = tokenizeLine(lineText)
    /\ tkPc' = "done"
    /\ UNCHANGED <<lineText, parVars, acVars, pluginVars>>

TokNext == TokenizeLine

SpecTok == TokInit /\ [][TokNext]_vars

(***************************************************************************)
(* NotationParser.parse and NotationParser.clearCache                       *)
(***************************************************************************)

\* CacheHit without the comparison of the contents
CacheHitAnyContent(c, d) == c # <<>>

\* CacheHit that never finds the entry
CacheHitNever(c, d) == FALSE

\* this.cache && this.cache.content === content
CacheHit(c, d) == c # <<>> /\ c[1].content = d

\* CacheEntry that keeps an entry already there
CacheEntryKeepFirst(c, d, obj) ==
    IF c # <<>> THEN c ELSE <<[content |-> d, result |-> obj]>>

\* this.cache = { content, result }
CacheEntry(c, d, obj) == <<[content |-> d, result |-> obj]>>

\* parse that scans into the object it returned last instead of a new one
parseInPlace(d) ==
    /\ content' = d
    /\ UNCHANGED ranked
    /\ IF CacheHit(cache, d)
       THEN /\ ret' = cache[1].result
            /\ hist' = Append(hist, [op |-> "parse", input |-> d, passes |-> 0,
                                     ret |-> cache[1].result])
            /\ UNCHANGED <<cache, heap>>
       ELSE LET obj == IF ret = 0 THEN Len(heap) + 1 ELSE ret
            IN  /\ heap' = IF ret = 0 THEN Append(heap, ScanDocument(d))
                           ELSE [heap EXCEPT ![ret] = ScanDocument(d)]
                /\ ret' = obj
                /\ cache' = CacheEntry(cache, d, obj)
                /\ hist' = Append(hist, [op |-> "parse", input |-> d,
                                         passes |-> ScanPasses, ret |-> obj])

\* NotationParser.parse(d)
parse(d) ==
    /\ content' = d
    /\ UNCHANGED ranked
    /\ IF CacheHit(cache, d)
       THEN /\ ret' = cache[1].result
            /\ hist' = Append(hist, [op |-> "parse", input |-> d, passes |-> 0,
                                     ret |-> cache[1].result])
            /\ UNCHANGED <<cache, heap>>
       ELSE /\ heap' = Append(heap, ScanDocument(d))
            /\ ret' = Len(heap) + 1
            /\ cache' = CacheEntry(cache, d, Len(heap) + 1)
            /\ hist' = Append(hist, [op |-> "parse", input |-> d,
                                     passes |-> ScanPasses, ret |-> Len(heap) + 1])

\* NotationParser.clearCache()
clearCache ==
    /\ cache' = <<>>
    /\ hist' = Append(hist, [op |-> "clear", input |-> <<>>, passes |-> 0, ret |-> 0])
    /\ UNCHANGED <<content, heap, ret, ranked>>

(***************************************************************************)
(* One parse of one document (the parser as a function of its input)        *)
(***************************************************************************)

MaxDocPieces == 3

DocPieces ==
    { <<"\n">>,
      <<"[", "N", ":", "a", "]">>,
      <<"[", "N", ":", "A", "]">>,
      <<"[", "N", ":", " ", "a", "|", "x", "]">>,
      <<"[", "N", ":", "a", "|", "y", "|", "x", "|", "y", "]">>,
      <<"[", "L", ":", "a", "|", "x", "|", "x", "]">>,
      <<"[", "P", "C", ":", "a", "|", " ", "|", "y", "]">>,
      <<"[", "T", "h", "r", "e", "a", "d", ":", "a", "]">>,
      <<"[", "T", "h", "r", "e", "a", "d", ":", "a", "|", "C", "]">>,
      <<"[", "T", "h", "r", "e", "a", "d", ":", "a", "|", "]">>,
      <<"[", "E", ":", "c", " ">>,
      <<"[", "E", ":", "c", " ", "1", "/", "2", "]">>,
      <<"[", "E", ":", "c", " ", "3", "/", "4", "]">>,
      <<"[", "T", "r", "a", "c", "k", ":", "c", " ", " ", "0", "/", "1", "2", "]">>,
      <<"[", "T", "i", "m", "e", "r", ":", "c", " ", "5", "]">> }

ParseInit ==
    /\ content \in Texts(DocPieces, MaxDocPieces)
    /\ ParserInit
    /\ PluginIdle
    /\ TokIdle
    /\ AcIdle

ParseDocument ==
    /\ hist = <<>>
    /\ parse(content)
    /\ UNCHANGED <<tokVars, acVars, pluginVars>>

ParseNext == ParseDocument

SpecParse == ParseInit /\ [][ParseNext]_vars

(***************************************************************************)
(* Any sequence of at most MaxCalls parse and clearCache calls              *)
(***************************************************************************)

MaxCalls == 4

CacheDocs ==
    { <<>>,
      <<"[", "N", ":", "a", "]">>,
      <<"[", "N", ":", "a", "|", "x", "]", "\n", "[", "E", ":", "c", " ", "1", "/", "2", "]">> }

CacheInit ==
    /\ content = <<>>
    /\ ParserInit
    /\ PluginIdle
    /\ TokIdle
    /\ AcIdle

ParseCall ==
    /\ Len(hist) < MaxCalls
    /\ \E d \in CacheDocs : parse(d)
    /\ UNCHANGED <<tokVars, acVars, pluginVars>>

ClearCacheCall ==
    /\ Len(hist) < MaxCalls
    /\ clearCache
    /\ UNCHANGED <<tokVars, acVars, pluginVars>>

CacheNext == ParseCall \/ ClearCacheCall

SpecCache == CacheInit /\ [][CacheNext]_vars

(***************************************************************************)
(* Auto-completion in an editor: the host asks onTrigger at the cursor,     *)
(* keeps a non-null answer as the context, asks getSuggestions for it and   *)
(* hands the chosen suggestion to selectSuggestion.                         *)
(***************************************************************************)

MaxEdPieces == 3

EdPieces ==
    { <<"\n">>, <<"a">>, <<" ">>,
      <<"[", "N", ":">>, <<"[", "#", "N", ":">>, <<"[", "L", ":">>,
      <<"[", "T", "h", "r", "e", "a", "d", ":">>, <<"[", "P", "C", ":">>,
      <<"[", "N", ":", "a", "b", "|", "x", "]">>,
      <<"[", "#", "N", ":", "a", "b", "]">>,
      <<"[", "L", ":", "b", "]">>,
      <<"[", "T", "h", "r", "e", "a", "d", ":", "a", "|", "C", "]">>,
      <<"[", "P", "C", ":", "a", "|", "y", "]">> }

AcInit ==
    /\ edText \in Texts(EdPieces, MaxEdPieces)
    /\ cursor \in Positions(edText)
    /\ context = <<>>
    /\ parsedElements = 0
    /\ lastContent = <<>>
    /\ suggestions = <<>>
    /\ insertion = <<>>
    /\ acPc = "idle"
    /\ content = <<>>
    /\ ParserInit
    /\ PluginIdle
    /\ TokIdle

\* the host calls onTrigger; a null answer closes the popup ("nofile" when the
\* answer is null because there is no file)
OnTrigger ==
    /\ acPc = "idle"
    /\ \E hasFile \in BOOLEAN :
           LET info == onTrigger(cursor, edText, hasFile)
           IN  /\ context' = info
               /\ acPc' = IF ~hasFile THEN "nofile"
                          ELSE IF info = <<>> THEN "closed" ELSE "triggered"
    /\ UNCHANGED <<edText, cursor, parsedElements, lastContent, suggestions, insertion>>
    /\ UNCHANGED <<tokVars, parVars, pluginVars>>

\* getSuggestions(context)
GetSuggestions ==
    /\ acPc = "triggered"
    /\ IF edText # lastContent
       THEN /\ parse(edText)
            /\ parsedElements' = ret'
            /\ lastContent' = edText
       ELSE UNCHANGED <<parVars, parsedElements, lastContent>>
    /\ suggestions' =
           IF parsedElements' = 0 THEN <<>>
           ELSE LET ctx == context[1]
                    line == getLine(edText, ctx.start.line)
                    beforeCursor == Slice(line, 0, ctx.end.ch)
                IN  SuggestionsFor(heap'[parsedElements'], beforeCursor,
                                   ToLower(ctx.query))
    /\ acPc' = "suggested"
    /\ UNCHANGED <<edText, cursor, context, insertion>>
    /\ UNCHANGED <<tokVars, pluginVars>>

\* selectSuggestion that leaves the cursor after the text in every context
CursorAlwaysAfterText(ctx, text, isReference) ==
    { [line |-> ctx.start.line, ch |-> ctx.start.ch + Len(text)] }

\* where the cursor can be after selectSuggestion: setCursor(newPos) unless
\* isReference; without setCursor the cursor is where the editor maps it, before
\* or after the text put in at it
CursorAfterSelect(ctx, text, isReference) ==
    IF ~isReference
    THEN { [line |-> ctx.start.line, ch |-> ctx.start.ch + Len(text) - 1] }
    ELSE { [line |-> ctx.start.line, ch |-> c] :
               c \in {ctx.start.ch, ctx.start.ch + Len(text)} }

\* selectSuggestion(suggestion, evt) for one of the suggestions shown
SelectSuggestion ==
    /\ acPc = "suggested"
    /\ context # <<>>
    /\ \E k \in 1..Len(suggestions) :
           LET ctx == context[1]
               line == getLine(edText, ctx.start.line)
               beforeCursor == Slice(line, 0, ctx.end.ch)
               isReference == IsReference(beforeCursor)
               text == Insertion(suggestions[k], isReference)
           IN  /\ insertion' = text
               /\ edText' = replaceRange(edText, text, ctx.start, ctx.end)
               /\ cursor' \in CursorAfterSelect(ctx, text, isReference)
    /\ acPc' = "applied"
    /\ UNCHANGED <<context, parsedElements, lastContent, suggestions>>
    /\ UNCHANGED <<tokVars, parVars, pluginVars>>

AcNext == OnTrigger \/ GetSuggestions \/ SelectSuggestion

SpecAc == AcInit /\ [][AcNext]_vars

(***************************************************************************)
(* Ranking: a document that tags at most MaxNames different names of one    *)
(* kind, in any order, and ends with an open tag of that kind and a query   *)
(***************************************************************************)

MaxNames == 3

RankNames ==
    { <<"a">>, <<"a", "b">>, <<"A", "b">>, <<"b">>, <<"b", "a">>, <<"B">> }

RankQueries == { <<>>, <<"a">>, <<"b">>, <<"a", "b">>, <<"B">> }

DefiningPrefixes == {NpcPrefix, LocationPrefix, ThreadPrefix, PcPrefix}

\* the sequences of at most n different elements of S
DistinctSeqs(S, n) ==
    { ns \in UNION { [1..k -> S] : k \in 0..n } :
        \A i, j \in 1..Len(ns) : i # j => ns[i] # ns[j] }

\* one tag per name, then the open tag with the query typed so far
RankDocument(prefix, names, query) ==
    Concat([k \in 1..Len(names) |-> prefix \o names[k] \o <<"]">>]) \o prefix \o query

RankInit ==
    /\ \E prefix \in DefiningPrefixes :
           \E names \in DistinctSeqs(RankNames, MaxNames) :
               \E query \in RankQueries :
                   edText = RankDocument(prefix, names, query)
    /\ cursor = [line |-> 0, ch |-> Len(edText)]
    /\ context = <<>>
    /\ parsedElements = 0
    /\ lastContent = <<>>
    /\ suggestions = <<>>
    /\ insertion = <<>>
    /\ acPc = "idle"
    /\ content = <<>>
    /\ ParserInit
    /\ PluginIdle
    /\ TokIdle

\* NotationParser.getSuggestions for the same parsed document and query, for
\* one of the entity types
ParserGetSuggestions ==
    /\ acPc = "suggested"
    /\ parsedElements # 0
    /\ \E type \in {"npc", "location", "thread", "pc"} :
           ranked' = <<[type |-> type,
                        names |-> getSuggestions(heap[parsedElements], type,
                                                 context[1].query)]>>
    /\ acPc' = "compared"
    /\ UNCHANGED <<content, cache, heap, ret, hist>>
    /\ UNCHANGED <<edText, cursor, context, parsedElements, lastContent, suggestions,
                   insertion>>
    /\ UNCHANGED <<tokVars, pluginVars>>

RankNext == OnTrigger \/ GetSuggestions \/ ParserGetSuggestions

SpecRank == RankInit /\ [][RankNext]_vars

(***************************************************************************)
(* A document seen by both: parse scans it whole, the highlighters hand its *)
(* lines to tokenizeLine one by one                                         *)
(***************************************************************************)

MaxHlPieces == 3

HlPieces ==
    { <<"\n">>, <<" ">>, <<"@">>,
      <<"[", "N", ":", "a">>, <<"|", "x">>, <<"]">>,
      <<"[", "N", ":", "a", "]">>,
      <<"[", "E", ":">>,
      <<"[", "T", "h", "r", "e", "a", "d", ":", "a", "|", "C", "]">>,
      <<"[", "L", ":", "b", "]">>,
      <<"[", "P", "C", ":", "b">> }

LinesInit ==
    /\ content \in Texts(HlPieces, MaxHlPieces)
    /\ ParserInit
    /\ PluginIdle
    /\ lineText = <<>>
    /\ tokens = <<>>
    /\ tkPc = "input"
    /\ AcIdle

\* tokenizeLine(line.text) for one line of the document
TokenizeDocumentLine ==
    /\ tkPc = "input"
    /\ \E n \in 0..(Len(SplitLines(content)) - 1) :
           /\ lineText' = getLine(content, n)
           /\ tokens' = tokenizeLine(getLine(content, n))
    /\ tkPc' = "done"
    /\ UNCHANGED <<parVars, acVars, pluginVars>>

LinesNext == ParseDocument \/ TokenizeDocumentLine

SpecLines == LinesInit /\ [][LinesNext]_vars

(***************************************************************************)
(* A document with reference tags, parsed as it is and parsed again with    *)
(* its reference tags taken out                                             *)
(***************************************************************************)

MaxRefPieces == 3

RefPieces ==
    { <<"\n">>, <<"]">>,
      <<"[", "N", ":", "a", "]">>,
      <<"[", "N", ":", "a", "|", "x", "]">>,
      <<"[", "N", ":", "a", "|">>,
      <<"[", "#", "N", ":", "a", "]">>,
      <<"[", "#", "N", ":", "b", "]">>,
      <<"[", "#", "N", ":", "a", "|", "z", "]">>,
      <<"[", "#", "N", ":", "b", "\n", "]">> }

\* the line breaks of a text
LineBreaksOf(s) == SelectSeq(s, LAMBDA c : c = "\n")

\* the text without its [#N:...] tags, each taken out up to its "]" with the
\* line breaks inside it kept
RECURSIVE StripReferences(_, _)
StripReferences(s, i) ==
    IF i >= Len(s) THEN <<>>
    ELSE LET close == IndexOfChar(s, "]", i + Len(ReferencePrefix))
         IN  IF StartsWithAt(s, ReferencePrefix, i) /\ close >= 0
             THEN LineBreaksOf(Slice(s, i, close)) \o StripReferences(s, close + 1)
             ELSE <<s[i + 1]>> \o StripReferences(s, i + 1)

RefInit ==
    /\ edText \in Texts(RefPieces, MaxRefPieces)
    /\ cursor = [line |-> 0, ch |-> 0]
    /\ context = <<>>
    /\ parsedElements = 0
    /\ lastContent = <<>>
    /\ suggestions = <<>>
    /\ insertion = <<>>
    /\ acPc = "off"
    /\ content = <<>>
    /\ ParserInit
    /\ PluginIdle
    /\ TokIdle

\* parse of the document as written
ParseWithReferences ==
    /\ hist = <<>>
    /\ parse(edText)
    /\ UNCHANGED <<tokVars, acVars, pluginVars>>

\* parse of the document without its reference tags
ParseWithoutReferences ==
    /\ Len(hist) = 1
    /\ parse(StripReferences(edText, 0))
    /\ UNCHANGED <<tokVars, acVars, pluginVars>>

RefNext == ParseWithReferences \/ ParseWithoutReferences

SpecRef == RefInit /\ [][RefNext]_vars

(***************************************************************************)
(* Round trip: a defining prefix is typed on a new line of a document, a    *)
(* suggestion is applied there and the document is parsed again             *)
(***************************************************************************)

MaxTripPieces == 3

TripPieces ==
    { <<"\n">>,
      <<"[", "N", ":", "a", "|", "y", "|", "x", "]">>,
      <<"[", "N", ":", "b">>,
      <<"[", "N", ":", " ", "|", "x", "]">>,
      <<"[", "L", ":", "a", "|", "x", "|", "x", "]">>,
      <<"[", "P", "C", ":", "b", "]">>,
      <<"[", "T", "h", "r", "e", "a", "d", ":", "a", "|", "C", "]">>,
      <<"[", "T", "h", "r", "e", "a", "d", ":", "a", "]">>,
      <<"[", "T", "h", "r", "e", "a", "d", ":", "b">>,
      <<"[", "E", ":", "c", " ", "1", "/", "2", "]">> }

\* the text with line x put in before its line p (counted from 0), at the end
\* when p is the number of lines
InsertLine(text, p, x) ==
    LET ls == SplitLines(text)
    IN  Join(SubSeq(ls, 1, p) \o <<x>> \o SubSeq(ls, p + 1, Len(ls)), <<"\n">>)

TripInit ==
    /\ \E d \in Texts(TripPieces, MaxTripPieces) :
           \E p \in 0..Len(SplitLines(d)) :
               \E prefix \in DefiningPrefixes :
                   /\ edText = InsertLine(d, p, prefix)
                   /\ cursor = [line |-> p, ch |-> Len(prefix)]
    /\ context = <<>>
    /\ parsedElements = 0
    /\ lastContent = <<>>
    /\ suggestions = <<>>
    /\ insertion = <<>>
    /\ acPc = "idle"
    /\ content = <<>>
    /\ ParserInit
    /\ PluginIdle
    /\ TokIdle

\* the next NotationParser.parse of the edited document
Reparse ==
    /\ acPc = "applied"
    /\ parse(edText)
    /\ acPc' = "reparsed"
    /\ UNCHANGED <<edText, cursor, context, parsedElements, lastContent, suggestions,
                   insertion>>
    /\ UNCHANGED <<tokVars, pluginVars>>

TripNext == OnTrigger \/ GetSuggestions \/ SelectSuggestion \/ Reparse

SpecTrip == TripInit /\ [][TripNext]_vars

(***************************************************************************)
(* ProgressTrackerView: the panel of clocks, tracks and timers of the       *)
(* active file, its + and - buttons and its refreshes                       *)
(***************************************************************************)

DigitChars == <<"0", "1", "2", "3", "4", "5", "6", "7", "8", "9">>

\* the decimal text of a number, as a template literal writes it
RECURSIVE NumberText(_)
NumberText(n) ==
    IF n < 10 THEN <<DigitChars[n + 1]>>
    ELSE NumberText(n \div 10) \o <<DigitChars[(n % 10) + 1]>>

\* the offset of the leftmost match of the clock / track pattern from i on, -1 for none
RECURSIVE FirstRatioMatch(_, _, _)
FirstRatioMatch(line, prefix, i) ==
    IF i >= Len(line) THEN -1
    ELSE IF RatioMatchAt(line, prefix, i).ok THEN i
    ELSE FirstRatioMatch(line, prefix, i + 1)

\* the offset of the leftmost match of the timer pattern from i on, -1 for none
RECURSIVE FirstCountMatch(_, _, _)
FirstCountMatch(line, prefix, i) ==
    IF i >= Len(line) THEN -1
    ELSE IF CountMatchAt(line, prefix, i).ok THEN i
    ELSE FirstCountMatch(line, prefix, i + 1)

\* line.replace(/\[E:([^\]]+)\s+(\d+)\/(\d+)\]/, `[E:$1 ${newCurrent}/$3]`), and the
\* same for Track: the leftmost match is replaced, a line without one is returned as is
ReplaceRatio(line, prefix, newCurrent) ==
    LET i == FirstRatioMatch(line, prefix, 0)
        m == RatioMatchAt(line, prefix, i)
    IN  IF i < 0 THEN line
        ELSE Slice(line, 0, i) \o prefix \o m.g1 \o <<" ">> \o NumberText(newCurrent)
                 \o <<"/">> \o m.g3 \o <<"]">> \o Slice(line, m.end, Len(line))

\* line.replace(/\[Timer:([^\]]+)\s+(\d+)\]/, `[Timer:$1 ${newCurrent}]`)
ReplaceCount(line, prefix, newCurrent) ==
    LET i == FirstCountMatch(line, prefix, 0)
        m == CountMatchAt(line, prefix, i)
    IN  IF i < 0 THEN line
        ELSE Slice(line, 0, i) \o prefix \o m.g1 \o <<" ">> \o NumberText(newCurrent)
                 \o <<"]">> \o Slice(line, m.end, Len(line))

Max(a, b) == IF a >= b THEN a ELSE b

\* the new text of the item's line
NewLine(line, item, delta) ==
    LET newCurrent == Max(0, item.current + delta)
    IN  IF item.type = "clock" THEN ReplaceRatio(line, ClockPrefix, newCurrent)
        ELSE IF item.type = "track" THEN ReplaceRatio(line, TrackPrefix, newCurrent)
        ELSE ReplaceCount(line, TimerPrefix, newCurrent)

\* what updateProgress hands to vault.modify for the content it read: <<>> when it
\* returns without writing (the line is beyond the file, or empty), else <<text>>
Rewritten(text, item, delta) ==
    LET lines == SplitLines(text)
    IN  IF item.line >= Len(lines) THEN <<>>
        ELSE IF lines[item.line + 1] = <<>> THEN <<>>
        ELSE <<Join([lines EXCEPT ![item.line + 1] = NewLine(@, item, delta)],
                    <<"\n">>)>>

\* the item slot of a job that has none
NoItem ==
    [type |-> "none", name |-> <<>>, current |-> 0, hasMax |-> FALSE, max |-> 0,
     line |-> 0]

\* a call of refresh that has emptied the container and waits for vault.read
RefreshJob ==
    [op |-> "refresh", pc |-> "read", item |-> NoItem, delta |-> 0, read |-> <<>>,
     text |-> <<>>]

\* the sequence without its element k
Without(xs, k) == SubSeq(xs, 1, k - 1) \o SubSeq(xs, k + 1, Len(xs))

MaxProgPieces == 2

MaxClicks == 2

ProgPieces ==
    { <<"\n">>,
      <<"[", "E", ":", "a", " ", "1", "/", "2", "]">>,
      <<"[", "E", ":", "b", " ", "0", "/", "2", "]">>,
      <<"[", "T", "r", "a", "c", "k", ":", "a", " ", "9", "/", "9", "]">>,
      <<"[", "T", "i", "m", "e", "r", ":", "a", " ", "1", "]">>,
      <<"x">> }

\* onOpen has run: the container is empty and its first refresh waits for the file
ProgInit ==
    /\ file \in Texts(ProgPieces, MaxProgPieces)
    /\ panel = <<>>
    /\ jobs = <<RefreshJob>>
    /\ written = <<>>
    /\ clicked = <<>>
    /\ EditorIdle
    /\ content = <<>>
    /\ cache = <<>>
    /\ heap = <<>>
    /\ ret = 0
    /\ hist = <<>>
    /\ ranked = <<>>
    /\ AcIdle
    /\ TokIdle

\* a click on the + or - button of a rendered item: updateProgress starts and
\* waits for vault.read
Click ==
    /\ Len(clicked) < MaxClicks
    /\ \E k \in 1..Len(panel), delta \in {1, -1} :
           /\ jobs' = Append(jobs, [op |-> "update", pc |-> "read", item |-> panel[k],
                                    delta |-> delta, read |-> <<>>, text |-> <<>>])
           /\ clicked' = Append(clicked, [item |-> panel[k], delta |-> delta])
    /\ UNCHANGED <<file, panel, written, editorVars, tokVars, parVars, acVars>>

\* vault.read resolves in updateProgress: the new content is composed and handed
\* to vault.modify, or the call returns without writing
UpdateRead ==
    /\ \E k \in 1..Len(jobs) :
           /\ jobs[k].op = "update"
           /\ jobs[k].pc = "read"
           /\ LET new == Rewritten(file, jobs[k].item, jobs[k].delta)
              IN  jobs' = IF new = <<>> THEN Without(jobs, k)
                          ELSE [jobs EXCEPT ![k].pc = "modify", ![k].read = file,
                                            ![k].text = new[1]]
    /\ UNCHANGED <<file, panel, written, clicked, editorVars, tokVars, parVars, acVars>>

\* vault.modify writes the file and fires "modify": the handler calls refresh, which
\* empties the container and waits for vault.read
UpdateModify ==
    /\ \E k \in 1..Len(jobs) :
           /\ jobs[k].op = "update"
           /\ jobs[k].pc = "modify"
           /\ file' = jobs[k].text
           /\ written' = <<[item |-> jobs[k].item, delta |-> jobs[k].delta,
                            read |-> jobs[k].read, before |-> file,
                            after |-> jobs[k].text]>>
           /\ jobs' = Append([jobs EXCEPT ![k].pc = "refresh"], RefreshJob)
    /\ panel' = <<>>
    /\ UNCHANGED <<clicked, editorVars, tokVars, parVars, acVars>>

\* updateProgress resumes after vault.modify: void this.refresh()
UpdateRefresh ==
    /\ \E k \in 1..Len(jobs) :
           /\ jobs[k].op = "update"
           /\ jobs[k].pc = "refresh"
           /\ jobs' = Append(Without(jobs, k), RefreshJob)
    /\ panel' = <<>>
    /\ UNCHANGED <<file, written, clicked, editorVars, tokVars, parVars, acVars>>

\* vault.read resolves in refresh and refresh resumes: NotationParser.parse(content),
\* then one row with its buttons for every progress record, clocks first, then
\* tracks, then timers
RefreshRender ==
    /\ \E k \in 1..Len(jobs) :
           /\ jobs[k].op = "refresh"
           /\ jobs[k].pc = "read"
           /\ parse(file)
           /\ panel' = panel \o heap'[ret'].progress
           /\ jobs' = Without(jobs, k)
    /\ UNCHANGED <<file, written, clicked, editorVars, tokVars, acVars>>

ProgNext == Click \/ UpdateRead \/ UpdateModify \/ UpdateRefresh \/ RefreshRender

SpecProg == ProgInit /\ [][ProgNext]_vars

(***************************************************************************)
(* Live editor highlighting: findLonelogBlocks and buildDecorations over    *)
(* the visible ranges of a document                                         *)
(***************************************************************************)

\* doc.line(n).from, n counted from 1
RECURSIVE LineFrom(_, _)
LineFrom(doc, n) ==
    IF n = 1 THEN 0 ELSE LineFrom(doc, n - 1) + Len(SplitLines(doc)[n - 1]) + 1

\* doc.line(n).to
LineTo(doc, n) == LineFrom(doc, n) + Len(SplitLines(doc)[n])

\* the positions doc.lineAt accepts; it throws a RangeError for any other
ValidPos(doc, pos) == 0 <= pos /\ pos <= Len(doc)

\* doc.lineAt(pos).number
lineAt(doc, pos) ==
    CHOOSE n \in 1..Len(SplitLines(doc)) : LineFrom(doc, n) <= pos /\ pos <= LineTo(doc, n)

Min(a, b) == IF a <= b THEN a ELSE b

\* the grave accent of a code fence; strings of this language cannot hold the
\* character itself, so "'" stands for it in every document of the editor model
GraveAccent == "'"

Fence == <<GraveAccent, GraveAccent, GraveAccent>>

LonelogFence == Fence \o <<"l", "o", "n", "e", "l", "o", "g">>

\* the for loop of findLonelogBlocks from line lineNum on, and the push after it
RECURSIVE ScanFences(_, _, _, _, _)
ScanFences(doc, lineNum, endLine, inLonelogBlock, blockStart) ==
    IF lineNum > endLine
    THEN IF inLonelogBlock
         THEN <<[from |-> blockStart, to |-> LineTo(doc, endLine)]>>
         ELSE <<>>
    ELSE LET text == Trim(SplitLines(doc)[lineNum])
         IN  IF ~inLonelogBlock /\ StartsWithAt(text, LonelogFence, 0)
             THEN ScanFences(doc, lineNum + 1, endLine, TRUE, LineTo(doc, lineNum) + 1)
             ELSE IF inLonelogBlock /\ StartsWithAt(text, Fence, 0)
             THEN <<[from |-> blockStart, to |-> LineFrom(doc, lineNum) - 1]>>
                      \o ScanFences(doc, lineNum + 1, endLine, FALSE, blockStart)
             ELSE ScanFences(doc, lineNum + 1, endLine, inLonelogBlock, blockStart)

findLonelogBlocks(doc, from, to) ==
    ScanFences(doc, lineAt(doc, from), lineAt(doc, Min(to, Len(doc))), FALSE, 0)

\* one mark for every token of line n that is not plain text
LineMarks(doc, n) ==
    LET toks == tokenizeLine(SplitLines(doc)[n])
        marks == [k \in 1..Len(toks) |->
                     IF toks[k].type = "text" THEN <<>>
                     ELSE <<[from |-> LineFrom(doc, n) + toks[k].start,
                             to |-> LineFrom(doc, n) + toks[k].end,
                             class |-> toks[k].type]>>]
    IN  Concat(marks)

\* the loop over the lines of one block, from line n on
RECURSIVE BlockMarks(_, _, _, _)
BlockMarks(doc, block, n, endLine) ==
    IF n > endLine THEN <<>>
    ELSE (IF LineFrom(doc, n) < block.from \/ LineTo(doc, n) > block.to THEN <<>>
          ELSE LineMarks(doc, n))
             \o BlockMarks(doc, block, n + 1, endLine)

\* a.from - b.from || a.to - b.to
MarkBefore(a, b) == a.from < b.from \/ (a.from = b.from /\ a.to < b.to)

RECURSIVE InsertMark(_, _)
InsertMark(sorted, x) ==
    IF sorted = <<>> THEN <<x>>
    ELSE IF MarkBefore(x, Head(sorted)) THEN <<x>> \o sorted
    ELSE <<Head(sorted)>> \o InsertMark(Tail(sorted), x)

\* decorations.sort(...)
RECURSIVE SortMarks(_)
SortMarks(xs) ==
    IF xs = <<>> THEN <<>>
    ELSE InsertMark(SortMarks(SubSeq(xs, 1, Len(xs) - 1)), xs[Len(xs)])

\* the blocks found for each visible range, one after the other
AllBlocks(doc, ranges) ==
    Concat([k \in 1..Len(ranges) |-> findLonelogBlocks(doc, ranges[k].from, ranges[k].to)])

\* buildDecorations: the sorted marks, or the RangeError of doc.lineAt for a block
\* that starts or ends outside the document
buildDecorations(doc, ranges) ==
    LET blocks == AllBlocks(doc, ranges)
    IN  IF \E k \in 1..Len(blocks) :
               ~ValidPos(doc, blocks[k].from) \/ ~ValidPos(doc, blocks[k].to)
        THEN [threw |-> TRUE, marks |-> <<>>]
        ELSE [threw |-> FALSE,
              marks |-> SortMarks(Concat([k \in 1..Len(blocks) |->
                            BlockMarks(doc, blocks[k], lineAt(doc, blocks[k].from),
                                       lineAt(doc, blocks[k].to))]))]

MaxDecoLines == 3

MaxRanges == 2

DecoLines ==
    { LonelogFence, Fence, <<"@", "a">>, <<"x">>, <<"[", "N", ":", "a", "]">> }

\* the documents of at most n lines
DecoDocs(n) ==
    { Join(ls, <<"\n">>) : ls \in UNION { [1..k -> DecoLines] : k \in 1..n } }

\* the ranges of whole lines of the document
LineRanges(doc) ==
    UNION { { [from |-> LineFrom(doc, a), to |-> LineTo(doc, b)] :
                b \in a..Len(SplitLines(doc)) } : a \in 1..Len(SplitLines(doc)) }

\* at most n ranges, each below the one before it
RangeSeqs(doc, n) ==
    { rs \in UNION { [1..k -> LineRanges(doc)] : k \in 1..n } :
        \A k \in 1..(Len(rs) - 1) : rs[k].to < rs[k + 1].from }

DecoInit ==
    /\ edText \in DecoDocs(MaxDecoLines)
    /\ visibleRanges \in RangeSeqs(edText, MaxRanges)
    /\ decorations = <<>>
    /\ cursor = [line |-> 0, ch |-> 0]
    /\ context = <<>>
    /\ parsedElements = 0
    /\ lastContent = <<>>
    /\ suggestions = <<>>
    /\ insertion = <<>>
    /\ acPc = "off"
    /\ content = <<>>
    /\ ParserInit
    /\ TrackerIdle
    /\ TokIdle

\* the view plugin builds its decorations for the visible ranges
BuildDecorations ==
    /\ decorations = <<>>
    /\ visibleRanges # <<>>
    /\ decorations' = <<buildDecorations(edText, visibleRanges)>>
    /\ UNCHANGED <<visibleRanges, trackerVars, tokVars, parVars, acVars>>

DecoNext == BuildDecorations

SpecDeco == DecoInit /\ [][DecoNext]_vars

\* the ParsedElements the latest parse call returned
Returned == heap[ret]

(***************************************************************************)
(* C1: the tokens of every line tile it: the first starts at 0, each starts *)
(* where the previous one ends, the last ends at the line length, and the  *)
(* token texts concatenated give the line.                                  *)
(***************************************************************************)

Tiles(toks, s) ==
    /\ (s = <<>>) <=> (toks = <<>>)
    /\ toks # <<>> => toks[1].start = 0 /\ toks[Len(toks)].end = Len(s)
    /\ \A k \in 1..Len(toks) : toks[k].start <= toks[k].end
    /\ \A k \in 1..(Len(toks) - 1) : toks[k + 1].start = toks[k].end
    /\ Concat([k \in 1..Len(toks) |-> toks[k].text]) = s

C1_TokensTileLine == tkPc = "done" => Tiles(tokens, lineText)

(***************************************************************************)
(* Vocabulary of the claims about one parsed document                       *)
(***************************************************************************)

Parsed == ret # 0 /\ hist # <<>>

\* the indices of the records of a map or list
Idx(xs) == 1..Len(xs)

\* the mention lists of every NPC, Location, PC and Thread record of a result
MentionRecords(doc) == doc.npcs \o doc.locations \o doc.pcs \o doc.threads

NonEmptyWithEnds(r) ==
    /\ r.mentions # <<>>
    /\ r.firstMention = r.mentions[1]
    /\ r.lastMention = r.mentions[Len(r.mentions)]

StrictlyAscending(xs) == \A k \in 1..(Len(xs) - 1) : xs[k] < xs[k + 1]

NonDecreasing(xs) == \A k \in 1..(Len(xs) - 1) : xs[k] <= xs[k + 1]

(***************************************************************************)
(* C4 (as stated): every NPC, Location, PC and Thread record has a          *)
(* non-empty, strictly ascending mentions list whose first element is       *)
(* firstMention and whose last element is lastMention.                      *)
(***************************************************************************)
C4_MentionsStrictlyAscending ==
    Parsed =>
        \A k \in Idx(MentionRecords(Returned)) :
            LET r == MentionRecords(Returned)[k]
            IN  NonEmptyWithEnds(r) /\ StrictlyAscending(r.mentions)

(***************************************************************************)
(* C4 (amended): every NPC, Location, PC and Thread record has a non-empty, *)
(* non-decreasing mentions list whose first element is firstMention and     *)
(* whose last element is lastMention; a line that tags the name several     *)
(* times is listed once per tag.                                            *)
(***************************************************************************)
C4_MentionsAscending ==
    Parsed =>
        \A k \in Idx(MentionRecords(Returned)) :
            LET r == MentionRecords(Returned)[k]
            IN  NonEmptyWithEnds(r) /\ NonDecreasing(r.mentions)

\* a record whose name is tagged twice on one line below the first
C4_Witness ==
    /\ Parsed
    /\ \E k \in Idx(MentionRecords(Returned)) :
           LET ms == MentionRecords(Returned)[k].mentions
           IN  Len(ms) = 2 /\ ms[1] = ms[2] /\ ms[1] > 0

(***************************************************************************)
(* C5: for every NPC, Location and PC record, tags is the duplicate-free,   *)
(* first-seen-order union of the trimmed, non-empty pipe-separated tags of  *)
(* all mentions of that name.                                               *)
(***************************************************************************)

\* xs without the later repetitions of its elements
RECURSIVE FirstSeen(_)
FirstSeen(xs) ==
    IF xs = <<>> THEN <<>>
    ELSE LET init == FirstSeen(SubSeq(xs, 1, Len(xs) - 1))
             x == xs[Len(xs)]
         IN  IF InSeq(init, x) THEN init ELSE Append(init, x)

\* the tags of the mentions of name among the matches ms, in document order
RECURSIVE TagsInOrder(_, _)
TagsInOrder(ms, name) ==
    IF ms = <<>> THEN <<>>
    ELSE (IF Trim(Head(ms).g1) = name THEN SplitTags(Head(ms).g3) ELSE <<>>)
             \o TagsInOrder(Tail(ms), name)

TagsAreUnion(map, s, prefix) ==
    \A k \in Idx(map) :
        map[k].tags = FirstSeen(TagsInOrder(EntityMatches(s, prefix, 0), map[k].name))

C5_TagsAreFirstSeenUnion ==
    Parsed =>
        /\ TagsAreUnion(Returned.npcs, content, NpcPrefix)
        /\ TagsAreUnion(Returned.locations, content, LocationPrefix)
        /\ TagsAreUnion(Returned.pcs, content, PcPrefix)

(***************************************************************************)
(* C6: for every thread name, state is the state the last mention of the    *)
(* name declares, "Open" when that mention declares none, and mentions      *)
(* lists the line of every mention of the name.                             *)
(***************************************************************************)

\* the matches of ms whose trimmed name is name
RECURSIVE MentionsOf(_, _)
MentionsOf(ms, name) ==
    IF ms = <<>> THEN <<>>
    ELSE (IF Trim(Head(ms).g1) = name THEN <<Head(ms)>> ELSE <<>>)
             \o MentionsOf(Tail(ms), name)

\* what a mention declares after its first "|", trimmed; <<>> when nothing
Declared(m) == IF m.hasG3 THEN Trim(m.g3) ELSE <<>>

C6_ThreadStateIsLastMention ==
    Parsed =>
        LET ms == EntityMatches(content, ThreadPrefix, 0)
            ts == Returned.threads
        IN  /\ \A j \in Idx(ms) : MapHas(ts, Trim(ms[j].g1))
            /\ \A k \in Idx(ts) :
                   LET mine == MentionsOf(ms, ts[k].name)
                       last == mine[Len(mine)]
                   IN  /\ mine # <<>>
                       /\ ts[k].state = IF Declared(last) = <<>> THEN OpenState
                                        ELSE Declared(last)
                       /\ ts[k].mentions =
                              [j \in Idx(mine) |-> getLineNumber(content, mine[j].index)]

\* a thread declared closed first and mentioned without a state last
C6_Witness ==
    /\ Parsed
    /\ LET ms == EntityMatches(content, ThreadPrefix, 0)
       IN  /\ Len(ms) >= 2
           /\ Trim(ms[1].g1) = Trim(ms[Len(ms)].g1)
           /\ Declared(ms[1]) = <<"C">>
           /\ Declared(ms[Len(ms)]) = <<>>
           /\ MapGet(Returned.threads, Trim(ms[1].g1)).state = OpenState

(***************************************************************************)
(* C7: progress holds exactly one record per occurrence of a Clock, Track   *)
(* or Timer tag, with that occurrence's own name, current value, max        *)
(* (absent exactly for timers) and line, also when a name occurs again.     *)
(***************************************************************************)

\* the offsets where a tag of the kind starts and is not inside an earlier one
Occurrences(s, prefix, ratio) ==
    LET At(i) == IF ratio THEN RatioMatchAt(s, prefix, i) ELSE CountMatchAt(s, prefix, i)
    IN  { i \in 0..(Len(s) - 1) :
            /\ At(i).ok
            /\ ~ \E j \in 0..(i - 1) : At(j).ok /\ At(j).end > i }

\* a finite set of numbers in ascending order
RECURSIVE Ascending(_)
Ascending(S) ==
    IF S = {} THEN <<>>
    ELSE LET lo == CHOOSE x \in S : \A y \in S : x <= y
         IN  <<lo>> \o Ascending(S \ {lo})

\* the records of a list whose type is type
OfType(rs, type) == SelectSeq(rs, LAMBDA r : r.type = type)

OneRecordEach(rs, s, prefix, type, ratio) ==
    LET occ == Ascending(Occurrences(s, prefix, ratio))
        mine == OfType(rs, type)
    IN  /\ Len(mine) = Len(occ)
        /\ \A k \in Idx(occ) :
               LET m == IF ratio THEN RatioMatchAt(s, prefix, occ[k])
                        ELSE CountMatchAt(s, prefix, occ[k])
               IN  /\ mine[k].name = Trim(m.g1)
                   /\ mine[k].current = parseInt(m.g2)
                   /\ mine[k].line = getLineNumber(s, occ[k])
                   /\ mine[k].hasMax = ratio
                   /\ ratio => mine[k].max = parseInt(m.g3)

C7_ProgressNotAggregated ==
    Parsed =>
        LET rs == Returned.progress
        IN  /\ OneRecordEach(rs, content, ClockPrefix, "clock", TRUE)
            /\ OneRecordEach(rs, content, TrackPrefix, "track", TRUE)
            /\ OneRecordEach(rs, content, TimerPrefix, "timer", FALSE)
            /\ \A k \in Idx(rs) : rs[k].type \in {"clock", "track", "timer"}
            /\ \A k \in Idx(rs) : rs[k].hasMax <=> rs[k].type # "timer"

\* two clock records of one name with different values on different lines
C7_Witness ==
    /\ Parsed
    /\ \E j, k \in Idx(Returned.progress) :
           LET a == Returned.progress[j]
               b == Returned.progress[k]
           IN  /\ j < k
               /\ a.type = "clock" /\ b.type = "clock"
               /\ a.name = b.name
               /\ a.current # b.current
               /\ a.line < b.line

(***************************************************************************)
(* C8: in any sequence of parse and clearCache calls, every parse call      *)
(* returns what a fresh, cache-less scan of its input produces.             *)
(***************************************************************************)
C8_ParseEqualsFreshScan ==
    \A k \in Idx(hist) :
        hist[k].op = "parse" => heap[hist[k].ret] = ScanDocument(hist[k].input)

\* a call answered from the cache after a different document had been parsed
C8_Witness ==
    \E j, k \in Idx(hist) :
        /\ j < k
        /\ hist[j].op = "parse" /\ hist[k].op = "parse"
        /\ hist[j].input # hist[k].input
        /\ hist[k].passes = 0
        /\ heap[hist[j].ret] # heap[hist[k].ret]

(***************************************************************************)
(* C9: a parse call whose input equals the input of the immediately         *)
(* preceding parse call, with no clearCache in between, runs none of the    *)
(* scanning passes and returns the object the preceding call returned.      *)
(***************************************************************************)
C9_RepeatParseSkipsScans ==
    \A k \in 2..Len(hist) :
        (/\ hist[k].op = "parse"
         /\ hist[k - 1].op = "parse"
         /\ hist[k].input = hist[k - 1].input)
            => hist[k].passes = 0 /\ hist[k].ret = hist[k - 1].ret

\* a scan of a document followed at once by a parse of the same document
C9_Witness ==
    \E k \in 2..Len(hist) :
        /\ hist[k].op = "parse" /\ hist[k - 1].op = "parse"
        /\ hist[k].input = hist[k - 1].input
        /\ hist[k - 1].passes = ScanPasses

(***************************************************************************)
(* C10: the cache is empty (before any parse, after clearCache) or holds    *)
(* exactly the input of the most recent parse call with the object returned *)
(* for it; every parse whose input differs from the cached input runs all   *)
(* the passes, so parsing A, B, A, B rescans on every call.                 *)
(***************************************************************************)
C10_CacheHoldsLatestParse ==
    /\ hist = <<>> => cache = <<>>
    /\ hist # <<>> =>
           LET h == hist[Len(hist)]
           IN  IF h.op = "clear" THEN cache = <<>>
               ELSE cache = <<[content |-> h.input, result |-> h.ret]>>
    /\ \A k \in Idx(hist) :
           (/\ hist[k].op = "parse"
            /\ (k = 1 \/ hist[k - 1].op = "clear" \/ hist[k - 1].input # hist[k].input))
               => /\ hist[k].passes = ScanPasses
                  /\ \A j \in 1..(k - 1) : hist[j].ret # hist[k].ret

\* A, B, A, B: four parse calls, each with all the passes
C10_Witness ==
    /\ Len(hist) = 4
    /\ \A k \in 1..4 : hist[k].op = "parse" /\ hist[k].passes = ScanPasses
    /\ hist[1].input = hist[3].input
    /\ hist[2].input = hist[4].input
    /\ hist[1].input # hist[2].input

(***************************************************************************)
(* Vocabulary of the claims about auto-completion                           *)
(***************************************************************************)

\* whether text s ends with p
EndsWith(s, p) == StartsWithAt(s, p, Len(s) - Len(p))

\* the text of the trigger line before the query: it ends with the tag prefix
\* the trigger matched (the line is unchanged before offset context.start.ch)
BeforeQuery ==
    Slice(getLine(edText, context[1].start.line), 0, context[1].start.ch)

\* the kind of the tag being completed at the cursor
TriggerKind ==
    IF EndsWith(BeforeQuery, NpcPrefix) \/ EndsWith(BeforeQuery, ReferencePrefix)
    THEN "npc"
    ELSE IF EndsWith(BeforeQuery, LocationPrefix) THEN "location"
    ELSE IF EndsWith(BeforeQuery, ThreadPrefix) THEN "thread"
    ELSE IF EndsWith(BeforeQuery, PcPrefix) THEN "pc"
    ELSE "none"

(***************************************************************************)
(* C2: when the trigger fires for a tag of kind K at the cursor, every      *)
(* suggestion returned is an entity of kind K, whatever other bracket tags  *)
(* stand earlier on the line.                                               *)
(***************************************************************************)
C2_SuggestionsOfTriggerKind ==
    acPc = "suggested" =>
        /\ TriggerKind # "none"
        /\ \A k \in Idx(suggestions) : suggestions[k].type = TriggerKind

(***************************************************************************)
(* C3: the bare replacement <name>] is composed if and only if the tag      *)
(* being completed at the cursor is a [#N: reference, whatever [#N: tags    *)
(* stand earlier on the line.                                               *)
(***************************************************************************)
C3_BareIffReferenceAtCursor ==
    acPc = "applied" =>
        \E k \in Idx(suggestions) :
            /\ insertion \in { Insertion(suggestions[k], b) : b \in BOOLEAN }
            /\ (insertion = suggestions[k].name \o <<"]">>)
                   <=> EndsWith(BeforeQuery, ReferencePrefix)

(***************************************************************************)
(* C11: no parse or clearCache call changes a ParsedElements object that an *)
(* earlier parse call returned (its maps, tag lists, mention lists and      *)
(* progress list keep their contents), and every parse that runs the        *)
(* scanning passes returns an object no earlier call returned.              *)
(***************************************************************************)

\* the objects the calls made so far returned
ReturnedSoFar == { hist[k].ret : k \in Idx(hist) } \ {0}

\* this step is a parse call that ran the scanning passes
FullScanStep ==
    /\ Len(hist') = Len(hist) + 1
    /\ hist'[Len(hist')].op = "parse"
    /\ hist'[Len(hist')].passes = ScanPasses

C11_ReturnedObjectsNeverChange ==
    [][/\ \A obj \in ReturnedSoFar : obj <= Len(heap') /\ heap'[obj] = heap[obj]
       /\ FullScanStep => ret' \notin ReturnedSoFar]_vars

\* two different objects have been returned, a clearCache and a later scan made
C11_Witness ==
    \E i, j, k \in Idx(hist) :
        /\ i < j /\ j < k
        /\ hist[i].op = "parse" /\ hist[j].op = "clear" /\ hist[k].op = "parse"
        /\ hist[k].passes = ScanPasses
        /\ heap[hist[i].ret] # heap[hist[k].ret]

(***************************************************************************)
(* Vocabulary of the claims about the tokens of one line                    *)
(***************************************************************************)

Tokenized == tkPc = "done"

\* the offsets of the "->" of the line that no "=" precedes
FreeArrows(s) ==
    { i \in 0..(Len(s) - 2) :
        StartsWithAt(s, <<"-", ">">>, i) /\ CharAt(s, i - 1) # "=" }

\* whether the tokens hold one of the type over exactly [a, b)
HasToken(toks, type, a, b) ==
    \E k \in Idx(toks) :
        toks[k].type = type /\ toks[k].start = a /\ toks[k].end = b

(***************************************************************************)
(* C12: on every line, whatever its line-level type (Consequence included), *)
(* each "->" that no "=" immediately precedes is returned as a Result token *)
(* over its two characters.                                                 *)
(***************************************************************************)
C12_FreeArrowsAreResults ==
    Tokenized =>
        \A i \in FreeArrows(lineText) : HasToken(tokens, "result", i, i + 2)

(***************************************************************************)
(* C13: with a file open, onTrigger returns a TriggerInfo exactly when the  *)
(* text before the cursor ends with one of the prefixes [N:, [#N:, [L:,     *)
(* [Thread:, [PC: followed by zero or more characters other than "|" and    *)
(* "]" (spaces included); otherwise it returns none.                        *)
(***************************************************************************)

TriggerPrefixes == {NpcPrefix, ReferencePrefix, LocationPrefix, ThreadPrefix, PcPrefix}

\* the text before the cursor on the cursor line
BeforeCursor == Slice(getLine(edText, cursor.line), 0, cursor.ch)

\* s ends inside a tag of a known kind that neither "|" nor "]" has ended
InsideOpenTag(s) ==
    \E p \in TriggerPrefixes :
        \E i \in 0..Len(s) :
            /\ StartsWithAt(s, p, i)
            /\ \A k \in (i + Len(p) + 1)..Len(s) : s[k] \notin {"|", "]"}

C13_TriggerIffInsideOpenTag ==
    /\ acPc = "triggered" => InsideOpenTag(BeforeCursor)
    /\ acPc = "closed" => ~InsideOpenTag(BeforeCursor)

(***************************************************************************)
(* C14: the suggestions are exactly the known names of the kind whose       *)
(* lowercase form contains the lowercase query (all of them for the empty   *)
(* query), each once, ordered in three tiers: names equal to the query      *)
(* ignoring case, names starting with it, names merely containing it, in    *)
(* alphabetical order inside a tier; the order is a function of the set of  *)
(* names, not of the order in which the document first tags them.           *)
(***************************************************************************)

\* the map of the kind in a ParsedElements object
MapOfKind(doc, kind) ==
    IF kind = "npc" THEN doc.npcs
    ELSE IF kind = "location" THEN doc.locations
    ELSE IF kind = "thread" THEN doc.threads
    ELSE doc.pcs

NamesOf(xs) == [k \in Idx(xs) |-> xs[k].name]

Tier(name, q) ==
    IF ToLower(name) = q THEN 1
    ELSE IF StartsWithAt(ToLower(name), q, 0) THEN 2
    ELSE 3

RanksBefore(x, y, q) ==
    \/ Tier(x, q) < Tier(y, q)
    \/ Tier(x, q) = Tier(y, q) /\ localeCompare(x, y) < 0

\* the names of a set in ranking order
RECURSIVE Ranked(_, _)
Ranked(S, q) ==
    IF S = {} THEN <<>>
    ELSE LET first == CHOOSE x \in S : \A y \in S \ {x} : RanksBefore(x, y, q)
         IN  <<first>> \o Ranked(S \ {first}, q)

C14_SuggestionsFilteredAndRanked ==
    acPc = "suggested" =>
        LET q == ToLower(context[1].query)
            known == NamesOf(MapOfKind(heap[parsedElements], TriggerKind))
            matching == { known[k] : k \in { j \in Idx(known) :
                              q = <<>> \/ Includes(ToLower(known[j]), q) } }
        IN  NamesOf(suggestions) = Ranked(matching, q)

\* one name in each tier, first tagged in the reverse of the ranking order
C14_Witness ==
    /\ acPc = "suggested"
    /\ context[1].query = <<"B">>
    /\ NamesOf(heap[parsedElements].npcs) = << <<"a", "b">>, <<"b", "a">>, <<"b">> >>
    /\ NamesOf(suggestions) = << <<"b">>, <<"b", "a">>, <<"a", "b">> >>

(***************************************************************************)
(* C15 (as stated): after any suggestion is applied, in a reference context *)
(* as in a defining one and for every kind, the cursor is immediately       *)
(* before the final closing bracket of the replacement: on the trigger      *)
(* line, at column start.ch + length(replacement) - 1.                      *)
(***************************************************************************)

Applied == acPc = "applied"

\* the position immediately before the last character of the replacement
BeforeFinalBracket ==
    [line |-> context[1].start.line,
     ch |-> context[1].start.ch + Len(insertion) - 1]

EntityKinds == {"npc", "location", "pc"}

\* the defining form of an entity record
DefiningForm(r) ==
    IF r.tags # <<>>
    THEN r.name \o <<"|">> \o Join(r.tags, <<"|">>) \o <<"]">>
    ELSE r.name \o <<"|", "]">>

\* the records of the parsed document behind the suggestions shown
SuggestedRecords ==
    LET doc == heap[parsedElements]
    IN  { r \in UNION { { MapOfKind(doc, kind)[k] : k \in Idx(MapOfKind(doc, kind)) } :
                            kind \in EntityKinds } :
            \E k \in Idx(suggestions) :
                /\ suggestions[k].type \in EntityKinds
                /\ suggestions[k].name = r.name
                /\ r \in { MapOfKind(doc, suggestions[k].type)[j] :
                              j \in Idx(MapOfKind(doc, suggestions[k].type)) } }

C16_DefiningFormCarriesStoredTags ==
    (/\ Applied
     /\ ~EndsWith(BeforeQuery, ReferencePrefix)
     /\ \A k \in Idx(suggestions) : suggestions[k].type \in EntityKinds)
        => \E r \in SuggestedRecords : insertion = DefiningForm(r)

(***************************************************************************)
(* C17: selecting a Thread candidate composes exactly <name>|Open]          *)
(* whatever state the parsed document holds for the thread, so documents    *)
(* that differ only in that state yield the same text.                      *)
(***************************************************************************)
C17_ThreadFormIsAlwaysOpen ==
    (/\ Applied
     /\ \A k \in Idx(suggestions) : suggestions[k].type = "thread")
        => \E k \in Idx(suggestions) :
               insertion = suggestions[k].name \o <<"|", "O", "p", "e", "n", "]">>

\* the suggestion of a thread whose state is not Open has been applied
C17_Witness ==
    /\ Applied
    /\ \E k \in Idx(suggestions) :
           /\ suggestions[k].type = "thread"
           /\ MapHas(heap[parsedElements].threads, suggestions[k].name)
           /\ MapGet(heap[parsedElements].threads, suggestions[k].name).state = <<"C">>
           /\ insertion = suggestions[k].name \o <<"|", "O", "p", "e", "n", "]">>

(***************************************************************************)
(* C18: tokenizeLine returns a Tag token over a span if and only if the     *)
(* span starts with "[" and one of exactly the eight prefixes N:, #N:, L:,  *)
(* PC:, Thread:, E:, Track:, Timer: and ends at the next "]" (spans are     *)
(* taken from left to right, none inside an earlier one); a bracket with    *)
(* any other prefix, #L: for one, or without a closing "]" gives none.      *)
(***************************************************************************)

KnownTagPrefixes ==
    { <<"N", ":">>, <<"#", "N", ":">>, <<"L", ":">>, <<"P", "C", ":">>,
      <<"T", "h", "r", "e", "a", "d", ":">>, <<"E", ":">>,
      <<"T", "r", "a", "c", "k", ":">>, <<"T", "i", "m", "e", "r", ":">> }

\* where the span of a known tag that starts at i ends, -1 when there is none
KnownTagEnd(s, i) ==
    IF /\ CharAt(s, i) = "["
       /\ \E p \in KnownTagPrefixes : StartsWithAt(s, p, i + 1)
    THEN LET close == IndexOfChar(s, "]", i + 1)
         IN  IF close < 0 THEN -1 ELSE close + 1
    ELSE -1

\* the spans of the known tags of a line, none inside an earlier one
KnownTagSpans(s) ==
    { <<i, KnownTagEnd(s, i)>> : i \in { j \in 0..(Len(s) - 1) :
        /\ KnownTagEnd(s, j) > 0
        /\ ~ \E h \in 0..(j - 1) : KnownTagEnd(s, h) > j } }

\* the spans of the tokens of a type
SpansOfType(toks, type) ==
    { <<toks[k].start, toks[k].end>> : k \in { j \in Idx(toks) : toks[j].type = type } }

C18_TagTokensAreKnownTags ==
    Tokenized => SpansOfType(tokens, "tag") = KnownTagSpans(lineText)

(***************************************************************************)
(* C19: every token that is neither a Result nor a Tag token has the        *)
(* line-level type when the line has one and the plain-text type            *)
(* otherwise, so the gap tokens of a line share one type; every inline      *)
(* match located is a token of its own type over its exact span.            *)
(***************************************************************************)

\* the type of the gaps of a line
GapType(s) ==
    LET lineType == LineStartType(TrimStart(s))
    IN  IF lineType # NULL THEN lineType ELSE "text"

C19_GapsShareLineType ==
    Tokenized =>
        LET inl == InlineTokens(lineText, LineStartType(TrimStart(lineText)))
        IN  /\ \A k \in Idx(tokens) :
                   tokens[k].type \notin {"result", "tag"}
                       => tokens[k].type = GapType(lineText)
            /\ \A k \in Idx(inl) :
                   /\ inl[k].type \in {"result", "tag"}
                   /\ HasToken(tokens, inl[k].type, inl[k].start, inl[k].end)
            /\ Len(tokens) >= Len(inl)

\* a line with a line-level type, a gap of that type and an inline token
C19_Witness ==
    /\ Tokenized
    /\ GapType(lineText) # "text"
    /\ \E j, k \in Idx(tokens) :
           /\ tokens[j].type = GapType(lineText)
           /\ tokens[k].type \in {"result", "tag"}
           /\ j < k

(***************************************************************************)
(* C20: at most one of the four line-start patterns matches a line at its   *)
(* first non-whitespace character, so the order of the tests does not       *)
(* matter: a line that starts there with "@", "?", "d:" or "=>" gets        *)
(* Action, Question, Dice or Consequence, every other line no line-level    *)
(* type (its gaps are plain text).                                          *)
(***************************************************************************)

LineStartPatterns ==
    { [pattern |-> <<"@">>, type |-> "action"],
      [pattern |-> <<"?">>, type |-> "question"],
      [pattern |-> <<"d", ":">>, type |-> "dice"],
      [pattern |-> <<"=", ">">>, type |-> "consequence"] }

\* the offset of the first character that is not white space, Len(s) without one
FirstInk(s) ==
    IF \E i \in 0..(Len(s) - 1) : ~IsWS(s[i + 1])
    THEN CHOOSE i \in 0..(Len(s) - 1) :
             ~IsWS(s[i + 1]) /\ \A j \in 0..(i - 1) : IsWS(s[j + 1])
    ELSE Len(s)

\* the patterns that match the line at its first non-whitespace character
PatternsAt(s) == { p \in LineStartPatterns : StartsWithAt(s, p.pattern, FirstInk(s)) }

C20_OneLineStartPattern ==
    Tokenized =>
        LET ps == PatternsAt(lineText)
        IN  /\ Cardinality(ps) <= 1
            /\ \A k \in Idx(tokens) :
                   tokens[k].type \notin {"result", "tag"} =>
                       \/ ps = {} /\ tokens[k].type = "text"
                       \/ \E p \in ps : tokens[k].type = p.type

\* an indented line of a dice roll: the gap before its arrow is Dice
C20_Witness ==
    /\ Tokenized
    /\ Len(lineText) > 3
    /\ IsWS(lineText[1])
    /\ PatternsAt(lineText) = { [pattern |-> <<"d", ":">>, type |-> "dice"] }
    /\ tokens[1].type = "dice"
    /\ tokens[Len(tokens)].type = "result"

(***************************************************************************)
(* C21: within one kind two tag occurrences share a map entry if and only   *)
(* if their names are equal after trimming (case-sensitive); each key is    *)
(* the name of its record, once; the maps of the kinds are independent:     *)
(* each is determined by the tags of its own kind.                          *)
(***************************************************************************)

\* the number of matches whose trimmed name is exactly name
MentionCount(ms, name) == Len(MentionsOf(ms, name))

OneEntryPerTrimmedName(map, s, prefix) ==
    LET ms == EntityMatches(s, prefix, 0)
    IN  /\ \A j, k \in Idx(map) : map[j].name = map[k].name => j = k
        /\ { map[k].name : k \in Idx(map) } = { Trim(ms[j].g1) : j \in Idx(ms) }
        /\ \A k \in Idx(map) :
               /\ Len(map[k].mentions) = MentionCount(ms, map[k].name)
               /\ map[k].mentions =
                      [j \in Idx(MentionsOf(ms, map[k].name)) |->
                          getLineNumber(s, MentionsOf(ms, map[k].name)[j].index)]

C21_EntriesKeyedByTrimmedName ==
    Parsed =>
        /\ OneEntryPerTrimmedName(Returned.npcs, content, NpcPrefix)
        /\ OneEntryPerTrimmedName(Returned.locations, content, LocationPrefix)
        /\ OneEntryPerTrimmedName(Returned.pcs, content, PcPrefix)
        /\ OneEntryPerTrimmedName(Returned.threads, content, ThreadPrefix)

\* "a" and " a" tagged as NPCs make one entry, "A" another
C21_Witness ==
    /\ Parsed
    /\ Len(Returned.npcs) = 2
    /\ MapHas(Returned.npcs, <<"a">>) /\ MapHas(Returned.npcs, <<"A">>)
    /\ Len(MapGet(Returned.npcs, <<"a">>).mentions) = 2
    /\ MapGet(Returned.npcs, <<"a">>).tags = <<"x">>
    /\ Len(MapGet(Returned.npcs, <<"A">>).mentions) = 1

(***************************************************************************)
(* C22: when the trigger fires the range reported is on the cursor line,    *)
(* ends at the cursor and starts the query length before it, the query      *)
(* being exactly the text between the colon of the prefix and the cursor;   *)
(* applying a suggestion replaces exactly that range: the prefix, all the   *)
(* text before it and all the text after the cursor stay as they were.      *)
(***************************************************************************)

\* the range is the query typed after a known prefix, up to position pos
RangeIsQueryAt(ctx, text, pos) ==
    LET line == getLine(text, pos.line)
    IN  /\ ctx.start.line = pos.line
        /\ ctx.end = pos
        /\ ctx.start.ch = pos.ch - Len(ctx.query)
        /\ ctx.query = Slice(line, ctx.start.ch, pos.ch)
        /\ \E p \in TriggerPrefixes : EndsWith(Slice(line, 0, ctx.start.ch), p)

\* text with the range of ctx replaced by the replacement, nothing else touched
WithRangeReplaced(text, ctx, replacement) ==
    Slice(text, 0, OffsetOf(text, ctx.start)) \o replacement
        \o Slice(text, OffsetOf(text, ctx.end), Len(text))

C22_RangeIsQueryAndOnlyItIsReplaced ==
    /\ acPc \in {"triggered", "suggested"} =>
           RangeIsQueryAt(context[1], edText, cursor)
    /\ Applied =>
           /\ RangeIsQueryAt(context[1], lastContent, context[1].end)
           /\ edText = WithRangeReplaced(lastContent, context[1], insertion)

\* a suggestion applied over a typed query on a later line, with text after it
C22_Witness ==
    /\ Applied
    /\ context[1].query # <<>>
    /\ context[1].start.line > 0
    /\ OffsetOf(lastContent, context[1].end) < Len(lastContent)
    /\ Len(edText) > Len(lastContent)

(***************************************************************************)
(* C23: for every set of names of a kind and every query, the empty one and *)
(* those with upper-case letters included, NotationParser.getSuggestions    *)
(* returns the names of the suggestions of LonelogAutoComplete for that     *)
(* kind, in the same order.                                                 *)
(***************************************************************************)
C23_RankingsAgree ==
    (acPc = "compared" /\ ranked[1].type = TriggerKind)
        => ranked[1].names = NamesOf(suggestions)

\* both rankings reorder three names for a query typed in upper case
C23_Witness ==
    /\ acPc = "compared"
    /\ ranked[1].type = TriggerKind
    /\ context[1].query = <<"B">>
    /\ Len(ranked[1].names) = 3
    /\ ranked[1].names # getAllNames(heap[parsedElements], ranked[1].type)

(***************************************************************************)
(* C24: every NPC, Location, PC or Thread mention the parser records at     *)
(* line n lies inside a Tag token of tokenizeLine for line n of the same    *)
(* document: the span of the token contains the whole text of the tag       *)
(* matched.                                                                 *)
(***************************************************************************)

\* the offset at which line n of the text starts
LineStart(text, n) == OffsetOf(text, [line |-> n, ch |-> 0])

\* the matches of the four mention-tracking passes
MentionMatches(s) ==
    EntityMatches(s, NpcPrefix, 0) \o EntityMatches(s, LocationPrefix, 0)
        \o EntityMatches(s, PcPrefix, 0) \o EntityMatches(s, ThreadPrefix, 0)

\* the match is covered by a Tag token of the tokens of its line
InsideTagToken(toks, s, m) ==
    LET from == m.index - LineStart(s, getLineNumber(s, m.index))
    IN  \E k \in Idx(toks) :
            /\ toks[k].type = "tag"
            /\ toks[k].start <= from
            /\ toks[k].end >= from + (m.end - m.index)

C24_MentionsAreHighlighted ==
    (Parsed /\ Tokenized) =>
        \A j \in Idx(MentionMatches(content)) :
            LET m == MentionMatches(content)[j]
            IN  getLine(content, getLineNumber(content, m.index)) = lineText
                    => InsideTagToken(tokens, content, m)

(***************************************************************************)
(* C25: a reference tag [#N:Name] neither creates an NPC entry nor changes  *)
(* the tags, mentions or lastMention of one: the npcs map of a document is  *)
(* the npcs map of the document with every [#N:...] tag taken out, line     *)
(* breaks kept.                                                             *)
(***************************************************************************)
C25_ReferencesLeaveNpcsAlone ==
    Len(hist) = 2 => heap[hist[1].ret].npcs = heap[hist[2].ret].npcs

(***************************************************************************)
(* C26: round trip of a defining suggestion. For an NPC, Location or PC     *)
(* entity E with tags T in the parse of document D, typing the matching     *)
(* defining prefix on a new line at the end of D, applying E's suggestion   *)
(* there and parsing again gives E with exactly the tags T in the same      *)
(* order and with its mentions extended by the new line only; every other   *)
(* entity, every thread and every progress record is as in the parse of D.  *)
(***************************************************************************)
Reparsed == acPc = "reparsed"

\* the line the prefix was typed on
TripLine == context[1].start.line

\* the document before that line was typed
DocumentBefore ==
    LET ls == SplitLines(lastContent)
    IN  Join(SubSeq(ls, 1, TripLine) \o SubSeq(ls, TripLine + 2, Len(ls)), <<"\n">>)

\* the name of the suggestion that was applied
ChosenName == Slice(insertion, 0, IndexOfChar(insertion, "|", 0))

TypedAtEnd == TripLine = Len(SplitLines(lastContent)) - 1

\* the map with one more mention, on the given line, of the named entry
WithMention(map, name, line) ==
    [k \in Idx(map) |->
        IF map[k].name = name
        THEN [map[k] EXCEPT !.mentions = Append(@, line), !.lastMention = line]
        ELSE map[k]]

C26_DefiningRoundTrip ==
    (Reparsed /\ TypedAtEnd /\ TriggerKind \in EntityKinds)
        => LET before == ScanDocument(DocumentBefore)
               after == heap[ret]
           IN  /\ MapHas(MapOfKind(before, TriggerKind), ChosenName)
               /\ \A kind \in {"npc", "location", "thread", "pc"} :
                      MapOfKind(after, kind) =
                          IF kind = TriggerKind
                          THEN WithMention(MapOfKind(before, kind), ChosenName, TripLine)
                          ELSE MapOfKind(before, kind)
               /\ after.progress = before.progress

(***************************************************************************)
(* C27: applying a Thread suggestion and parsing again. When the completed  *)
(* [Thread:<name>|Open] tag stands after every existing mention of the      *)
(* thread, the state parsed for the thread is "Open" whatever it was        *)
(* before; when it stands before the thread's last existing mention, the    *)
(* state is unchanged. In both cases mentions grows by exactly one line.    *)
(***************************************************************************)
ThreadsBefore == ScanDocument(DocumentBefore).threads

\* a suggestion of a thread of the document has been applied and parsed
ThreadRoundTrip ==
    /\ Reparsed
    /\ TriggerKind = "thread"
    /\ MapHas(ThreadsBefore, ChosenName)

\* the new line stands below every line that mentions the thread
PlacedAfterMentions == MapGet(ThreadsBefore, ChosenName).lastMention < TripLine

C27_ThreadRoundTrip ==
    ThreadRoundTrip
        => LET old == MapGet(ThreadsBefore, ChosenName)
               threads == heap[ret].threads
           IN  /\ MapHas(threads, ChosenName)
               /\ MapGet(threads, ChosenName).state =
                      IF PlacedAfterMentions THEN OpenState ELSE old.state
               /\ Len(MapGet(threads, ChosenName).mentions) = Len(old.mentions) + 1

(***************************************************************************)
(* C28: clicking + or - on a progress item rewrites the file so that only   *)
(* that item's own tag changes: its current value becomes                   *)
(* max(0, current + delta) while its name and max stay the same, and every  *)
(* other character of the file, any other clock, track or timer tag on the  *)
(* same line included, is unchanged.                                        *)
(***************************************************************************)
ItemPrefix(item) ==
    IF item.type = "clock" THEN ClockPrefix
    ELSE IF item.type = "track" THEN TrackPrefix
    ELSE TimerPrefix

\* the match of the item's pattern at offset i of the text
ItemMatchAt(s, item, i) ==
    IF item.hasMax THEN RatioMatchAt(s, ItemPrefix(item), i)
    ELSE CountMatchAt(s, ItemPrefix(item), i)

\* the record the parser makes of the tag of the item's type at offset i
RecordAt(s, item, i) ==
    LET m == ItemMatchAt(s, item, i)
    IN  [type |-> item.type, name |-> Trim(m.g1), current |-> parseInt(m.g2),
         hasMax |-> item.hasMax, max |-> IF item.hasMax THEN parseInt(m.g3) ELSE 0,
         line |-> getLineNumber(s, i)]

\* after is before with one tag of the item replaced by the tag of the item with
\* its new current value, the text before and after the tag kept
OwnTagChanged(before, after, item, delta) ==
    \E i \in 0..(Len(before) - 1) :
        /\ ItemMatchAt(before, item, i).ok
        /\ RecordAt(before, item, i) = item
        /\ ItemMatchAt(after, item, i).ok
        /\ RecordAt(after, item, i) = [item EXCEPT !.current = Max(0, @ + delta)]
        /\ Slice(after, 0, i) = Slice(before, 0, i)
        /\ Slice(after, ItemMatchAt(after, item, i).end, Len(after)) =
               Slice(before, ItemMatchAt(before, item, i).end, Len(before))

\* updateProgress has written, for an item of the file as it read it and as it
\* was when the write took place
FreshWrite ==
    /\ written # <<>>
    /\ written[1].read = written[1].before
    /\ InSeq(parseProgress(written[1].before), written[1].item)

C28_OnlyOwnTagChanges ==
    FreshWrite
        => OwnTagChanged(written[1].before, written[1].after, written[1].item,
                         written[1].delta)

(***************************************************************************)
(* C29: no click is lost. For every interleaving of k increment clicks on   *)
(* the same progress item with the file reads, file writes, modify events   *)
(* and panel refreshes they trigger, the item's current value in the file   *)
(* ends exactly k higher than it started.                                   *)
(***************************************************************************)
SameItem(a, b) == a.type = b.type /\ a.name = b.name /\ a.line = b.line

\* every click so far was on the + button of one item, and every call it started
\* has run to its end
IncrementsSettled ==
    /\ clicked # <<>>
    /\ jobs = <<>>
    /\ \A k \in 1..Len(clicked) :
           clicked[k].delta = 1 /\ SameItem(clicked[k].item, clicked[1].item)

C29_NoClickIsLost ==
    IncrementsSettled
        => \E k \in 1..Len(parseProgress(file)) :
               /\ SameItem(parseProgress(file)[k], clicked[1].item)
               /\ parseProgress(file)[k].current =
                      clicked[1].item.current + Len(clicked)

(***************************************************************************)
(* C30: in the live editor, for every document and every visible range, a  *)
(* visible line receives Lonelog token decorations if and only if it lies   *)
(* strictly between a ```lonelog opening fence and the next closing ```     *)
(* fence of the document (the end of the document for a block not yet       *)
(* closed); fence lines and lines outside such blocks receive none, and the *)
(* outcome for a line does not depend on whether the block's opening fence  *)
(* lies inside the visible range.                                           *)
(***************************************************************************)
Built == decorations # <<>>

\* the lines of the visible ranges
VisibleLines ==
    { n \in 1..Len(SplitLines(edText)) :
        \E k \in 1..Len(visibleRanges) :
            /\ lineAt(edText, visibleRanges[k].from) <= n
            /\ n <= lineAt(edText, Min(visibleRanges[k].to, Len(edText))) }

\* a block of the document, read from its first line, is open before line n
RECURSIVE OpenBefore(_, _)
OpenBefore(doc, n) ==
    IF n = 1 THEN FALSE
    ELSE LET text == Trim(SplitLines(doc)[n - 1])
         IN  IF OpenBefore(doc, n - 1) THEN ~StartsWithAt(text, Fence, 0)
             ELSE StartsWithAt(text, LonelogFence, 0)

\* line n lies inside a block of the document and is not its closing fence
InsideBlock(doc, n) ==
    OpenBefore(doc, n) /\ ~StartsWithAt(Trim(SplitLines(doc)[n]), Fence, 0)

Elements(xs) == { xs[k] : k \in 1..Len(xs) }

\* the decorations that start on line n
MarksOn(n) ==
    { d \in Elements(decorations[1].marks) :
        LineFrom(edText, n) <= d.from /\ d.from <= LineTo(edText, n) }

C30_DecoratedIffInsideBlock ==
    Built
        => \A n \in VisibleLines :
               MarksOn(n) = IF InsideBlock(edText, n)
                            THEN Elements(LineMarks(edText, n))
                            ELSE {}
====
